---- MODULE Spec2Model ----
(***************************************************************************)
(* Transport layer of the Hume Rust SDK.                                   *)
(*                                                                         *)
(*  SpecUnary  : HttpClient::request / execute_request (core/http.rs),     *)
(*               the closure handed to backoff::future::retry and the      *)
(*               ExponentialBackoff that drives it.                        *)
(*  SpecDuplex : ChatSocket (evi/chat.rs) over a tokio-tungstenite         *)
(*               WebSocketStream.                                          *)
(*                                                                         *)
(* Time is counted in microseconds so that the backoff intervals           *)
(* 500 ms * 1.5^n are exact integers for the attempts the model reaches.   *)
(***************************************************************************)
EXTENDS Integers, Sequences, FiniteSets, TLC

VARIABLES
    \* ---- unary request engine ----
    client_max_retries,   \* HttpClient.max_retries
    opt_max_retries,      \* RequestOptions.max_retries of the call in progress
    upc,                  \* position of the call: idle / sending / sleeping / done
    attempts,             \* number of request.send() performed by this call
    elapsed,              \* backoff clock: time since retry() was started
    current_interval,     \* ExponentialBackoff.current_interval
    last_outcome,         \* what the last attempt met (response or send error)
    earlier_5xx,          \* every attempt before the last one was answered 5xx
    drawn,                \* randomized interval of the last next_backoff call
    delay,                \* the sleep scheduled before the next attempt
    exec_result,          \* what execute_request returned
    result,               \* what request() returned to the caller
    \* ---- duplex session ----
    handle,               \* ownership of the ChatSocket value
    ws_state,             \* tungstenite WebSocketState of ChatSocket.ws
    additional_send,      \* tungstenite additional_send: the reply owed to the peer
    ended,                \* tokio-tungstenite WebSocketStream.ended
    net,                  \* condition of the TCP connection: up / eof / reset / broken
    inbound,              \* frames the server emitted, not yet read
    emitted,              \* number of frames the server emitted so far
    wire,                 \* frames the client wrote, replies of tungstenite included
    sends,                \* number of send_message() calls made
    consumed,             \* inbound events taken by receive(), in order
    returned,             \* what each receive() returned, in order
    last_send,            \* what the last send_message() returned
    last_close,           \* what close() returned
    observed,             \* why the session ended, as seen by the caller
    \* ---- session built by ChatSessionBuilder, its application and server ----
    builder_settings,     \* ChatSessionBuilder.session_settings
    outbox,               \* the kinds the application has sent, in call order
    utterance,            \* the chunks the server has emitted, in order
    \* ---- tasks of the application that share one ChatSocket ----
    in_call,              \* per task: the method of the socket it is inside
    io_log,               \* the halves of frames written and read, in order
    calls_begun,          \* number of method calls begun on the socket
    \* ---- one ClientMessage on its way through the codec ----
    message,              \* the ClientMessage handed to send_message
    json,                 \* serde_json::to_string(&message)
    decoded,              \* what serde_json::from_str makes of the frame
    \* ---- retry_with_backoff (core/retry.rs) ----
    r_max_retries,        \* RetryConfig.max_retries
    rpc,                  \* position in the loop: calling / waiting / done
    retries,              \* the loop's counter of retries
    invocations,          \* number of times the operation was invoked
    r_interval,           \* current_interval of the loop's backoff
    r_delay,              \* the delay slept before the next invocation
    r_error,              \* the error of the last failed invocation
    r_result,             \* what retry_with_backoff returned
    classified,           \* the last error given to is_retryable_error, with the verdict
    \* ---- RetryConfig::calculate_backoff (core/retry.rs) ----
    b_config,             \* the RetryConfig calculate_backoff is called on
    computed,             \* the last call of calculate_backoff: attempt, draw, delay
    \* ---- the client and its credential (core/http.rs, core/auth.rs) ----
    cl,                   \* HttpClient: base_url, auth, default_timeout, max_retries
    utc_now,              \* Utc::now(), in seconds
    expiry_seen,          \* the last answer of Auth::is_expired, with its time
    \* ---- calls in flight on one client (core/http.rs, evi/chat.rs) ----
    inflight,             \* per call of execute_request: its position and retry state
    handshake,            \* the last ChatClient::connect: the parameter sent, the result
    \* ---- request_bytes and request_stream (core/http.rs) ----
    raw_result,           \* the last return of request_bytes or request_stream
    \* ---- BatchClient::wait_for_job_completion (expression_measurement/batch.rs) ----
    w_pc,                 \* position in the loop: idle / polling / sleeping / done
    w_poll_interval,      \* poll_interval, in seconds
    w_max_wait,           \* max_wait: None or Some(seconds)
    w_elapsed,            \* start.elapsed(), in seconds
    w_polls,              \* number of get_job calls made
    w_job,                \* what the last get_job returned
    w_result              \* what wait_for_job_completion returned

uvars == <<client_max_retries, opt_max_retries, upc, attempts, elapsed,
           current_interval, last_outcome, earlier_5xx, drawn, delay, exec_result,
           result>>
dvars == <<handle, ws_state, additional_send, ended, net, inbound, emitted, wire, sends,
           consumed, returned, last_send, last_close, observed>>
svars == <<builder_settings, outbox, utterance>>
tvars == <<in_call, io_log, calls_begun>>
cvars == <<message, json, decoded>>
rvars == <<r_max_retries, rpc, retries, invocations, r_interval, r_delay, r_error,
           r_result, classified>>
bvars == <<b_config, computed>>
avars == <<cl, utc_now, expiry_seen>>
kvars == <<inflight, handshake>>
yvars == <<raw_result>>
pvars == <<w_pc, w_poll_interval, w_max_wait, w_elapsed, w_polls, w_job, w_result>>
zvars == <<bvars, avars, kvars, yvars, pvars>>
oldvars == <<uvars, dvars, svars, tvars, cvars, rvars>>
xvars == <<svars, tvars, cvars, rvars, zvars>>
vars  == <<uvars, dvars, xvars>>

NoVal == [kind |-> "none"]

\* Option<T>
None == [some |-> FALSE]
Some(v) == [some |-> TRUE, val |-> v]

(***************************************************************************)
(* Bounds of the model                                                     *)
(***************************************************************************)
MaxRetriesBound == 3      \* largest max_retries a builder or a request sets
MaxAttempts == 5          \* attempts of one call the model follows
MaxFrames == 2            \* frames the server emits in one session
MaxInbound == 3           \* frames of any kind a server that keeps to the protocol emits
MaxSends == 1             \* frames the application sends in one session
MaxOutbox == 2            \* messages the application sends in one built session
MaxChunks == 3            \* chunks the server emits in one built session
MaxTasks == 2             \* tasks of the application that hold the socket
MaxCalls == 3             \* calls the tasks make on the socket
MaxAttemptIndex == 8      \* largest attempt index given to calculate_backoff
MaxClock == 4             \* seconds the clock of the credential model runs
MaxConcurrent == 2        \* calls in flight on one client
MaxCallAttempts == 2      \* attempts the model follows for each of them
MaxPolls == 3             \* polls of one wait the model follows

(***************************************************************************)
(* Program constants                                                       *)
(***************************************************************************)
DefaultMaxRetries == 3                 \* HttpClient::new
MaxElapsedTime == 60000000             \* Duration::from_secs(60)
InitialInterval == 500000              \* backoff default: 500 ms
MaxInterval == 60000000                \* backoff default: 60 s
MultiplierNum == 3                     \* backoff default multiplier 1.5 = 3/2
MultiplierDen == 2
RandomizationPct == 50                 \* backoff default randomization 0.5
TooManyRequests == 429                 \* StatusCode::TOO_MANY_REQUESTS
RetryDefaultMaxRetries == 3            \* RetryConfig::default().max_retries
RetryInitialBackoff == 100000          \* RetryConfig::default(): 100 ms
RetryMaxBackoff == 10000000            \* RetryConfig::default(): 10 s
RetryMultiplier == 2                   \* RetryConfig::default(): 2.0

DefaultTimeout == 30                   \* HttpClient::new: Duration::from_secs(30)

\* Auth::ApiKey and Auth::AccessToken(AuthToken), times in seconds
ApiKey(key) == [kind |-> "ApiKey", key |-> key]
AccessToken(token, expires_in, created_at) ==
    [kind |-> "AccessToken", access_token |-> token, token_type |-> "Bearer",
     expires_in |-> expires_in, created_at |-> created_at]

\* RetryConfig::default(), durations in microseconds
DefaultRetryConfig ==
    [max_retries |-> RetryDefaultMaxRetries, initial_backoff |-> RetryInitialBackoff,
     max_backoff |-> RetryMaxBackoff, backoff_multiplier |-> RetryMultiplier]

(***************************************************************************)
(* Inputs of the unary engine                                              *)
(***************************************************************************)
Statuses == {200, 400, 429, 500}
RetryAfterValues == {None, Some(5)}        \* retry-after header, seconds
ResponseTimes == {0, 29900000}             \* time one attempt takes
SendErrors == {"connect", "timeout", "other"}
JitterDraws == {0, 1, 2}                   \* rand::random() = 0, 1/2, ~1

Responses ==
    [kind : {"response"}, status : Statuses \ {TooManyRequests},
     retry_after : {None}, decodable : {TRUE}, took : ResponseTimes]
    \cup
    [kind : {"response"}, status : {200},
     retry_after : {None}, decodable : {FALSE}, took : {0}]
    \cup
    [kind : {"response"}, status : {TooManyRequests},
     retry_after : RetryAfterValues, decodable : {TRUE}, took : ResponseTimes]

SendFailures ==
    [kind : {"send_error"}, cause : SendErrors, took : {0}]

Outcomes == Responses \cup SendFailures

(***************************************************************************)
(* core/http.rs                                                            *)
(***************************************************************************)
IsSuccess(status) == status >= 200 /\ status < 300
IsServerError(status) == status >= 500 /\ status < 600

Is5xx(o) == o.kind = "response" /\ IsServerError(o.status)

\* should_retry_status, had it left server errors out
should_retry_status_only429(status) == status = TooManyRequests

\* should_retry_status, had it taken every error status for retryable
should_retry_status_any_error(status) == status >= 400

\* HttpClient::should_retry_status
should_retry_status(status) ==
    IsServerError(status) \/ status = TooManyRequests

\* HttpClient::should_retry, applied to a reqwest::Error of the given cause
should_retry(cause) == cause = "connect" \/ cause = "timeout"

\* let max_retries = options.max_retries.unwrap_or(self.max_retries)
EffectiveMaxRetries(opt, cfg) == IF opt.some THEN opt.val ELSE cfg

\* The closure given to retry(), had it decoded the body itself and taken a
\* body that fails to decode for a transient failure
AttemptResult_decode_in_closure(o, max_retries) ==
    IF o.kind = "send_error"
    THEN IF o.cause = "timeout"
         THEN [kind |-> "permanent", err |-> [kind |-> "Timeout"]]
         ELSE IF should_retry(o.cause)
              THEN [kind |-> "transient", err |-> [kind |-> "Http", cause |-> o.cause]]
              ELSE [kind |-> "permanent", err |-> [kind |-> "Http", cause |-> o.cause]]
    ELSE IF should_retry_status(o.status) /\ max_retries > 0
         THEN [kind |-> "transient",
               err |-> [kind |-> "Other", retryable_status |-> o.status]]
         ELSE IF IsSuccess(o.status) /\ ~o.decodable
              THEN [kind |-> "transient", err |-> [kind |-> "Http", cause |-> "decode"]]
              ELSE [kind |-> "ok", resp |-> o]

\* The closure given to retry(): what one attempt yields, as a
\* Result<Response, backoff::Error<Error>>.
AttemptResult(o, max_retries) ==
    IF o.kind = "send_error"
    THEN IF o.cause = "timeout"
         THEN [kind |-> "permanent", err |-> [kind |-> "Timeout"]]
         ELSE IF should_retry(o.cause)
              THEN [kind |-> "transient", err |-> [kind |-> "Http", cause |-> o.cause]]
              ELSE [kind |-> "permanent", err |-> [kind |-> "Http", cause |-> o.cause]]
    ELSE IF should_retry_status(o.status)
         THEN IF max_retries > 0
              THEN [kind |-> "transient",
                    err |-> [kind |-> "Other", retryable_status |-> o.status]]
              ELSE [kind |-> "ok", resp |-> o]
         ELSE [kind |-> "ok", resp |-> o]

\* HttpClient::handle_error_response
handle_error_response(resp) ==
    IF resp.status = TooManyRequests
    THEN [kind |-> "Err", err |-> [kind |-> "RateLimit", retry_after |-> resp.retry_after]]
    ELSE [kind |-> "Err", err |-> [kind |-> "Api", status |-> resp.status]]

\* HttpClient::request, after execute_request returned
RequestResult(exec) ==
    IF exec.kind = "Err"
    THEN exec
    ELSE IF IsSuccess(exec.resp.status)
         THEN IF exec.resp.decodable
              THEN [kind |-> "Ok", body |-> "payload"]
              ELSE [kind |-> "Err", err |-> [kind |-> "Http", cause |-> "decode"]]
         ELSE handle_error_response(exec.resp)

(***************************************************************************)
(* backoff::ExponentialBackoff with the defaults execute_request keeps     *)
(***************************************************************************)
\* get_random_value_from_interval, for the draw r/2 of rand::random()
RandomizedInterval(interval, r) ==
    LET delta == RandomizationPct * (interval \div 100)
                     + (RandomizationPct * (interval % 100)) \div 100
        lo    == interval - delta
        hi    == interval + delta
    IN  lo + (r * (hi - lo)) \div 2

\* increment_current_interval
IncrementCurrentInterval(interval) ==
    IF interval * MultiplierNum >= MaxInterval * MultiplierDen
    THEN MaxInterval
    ELSE (interval * MultiplierNum) \div MultiplierDen

\* NextBackoff, had max_elapsed_time been half of what execute_request sets
NextBackoff_half(el, interval, r) ==
    IF 2 * el > MaxElapsedTime
    THEN None
    ELSE IF 2 * (el + RandomizedInterval(interval, r)) <= MaxElapsedTime
         THEN Some(RandomizedInterval(interval, r))
         ELSE None

\* next_backoff: Some(delay to sleep), or None when max_elapsed_time is spent
NextBackoff(el, interval, r) ==
    IF el > MaxElapsedTime
    THEN None
    ELSE IF el + RandomizedInterval(interval, r) <= MaxElapsedTime
         THEN Some(RandomizedInterval(interval, r))
         ELSE None

\* the randomized interval next_backoff computed, if it computed one
DrawnInterval(el, interval, r) ==
    IF el > MaxElapsedTime THEN None ELSE Some(RandomizedInterval(interval, r))

\* interval after a call of next_backoff made at elapsed time el
IntervalAfterBackoff(el, interval) ==
    IF el > MaxElapsedTime THEN interval ELSE IncrementCurrentInterval(interval)

(***************************************************************************)
(* Unary engine: actions                                                   *)
(***************************************************************************)
RetryChoices == 0..MaxRetriesBound

\* the duplex session, not yet opened
NoSession ==
    /\ handle = "connecting"
    /\ ws_state = "Active"
    /\ additional_send = "none"
    /\ ended = FALSE
    /\ net = "up"
    /\ inbound = <<>>
    /\ emitted = 0
    /\ wire = <<>>
    /\ sends = 0
    /\ consumed = <<>>
    /\ returned = <<>>
    /\ last_send = NoVal
    /\ last_close = NoVal
    /\ observed = "nothing"

\* no session builder, no scripted application or server
NoScript ==
    /\ builder_settings = None
    /\ outbox = <<>>
    /\ utterance = <<>>

Tasks == 1..MaxTasks

\* no task is inside a method of the socket
NoCalls ==
    /\ in_call = [t \in Tasks |-> NoVal]
    /\ io_log = <<>>
    /\ calls_begun = 0

\* no message is in the codec
NoMessage ==
    /\ message = NoVal
    /\ json = NoVal
    /\ decoded = NoVal

\* retry_with_backoff is not in use
NoRetryLoop ==
    /\ r_max_retries = RetryDefaultMaxRetries
    /\ rpc = "idle"
    /\ retries = 0
    /\ invocations = 0
    /\ r_interval = RetryInitialBackoff
    /\ r_delay = 0
    /\ r_error = NoVal
    /\ r_result = NoVal
    /\ classified = NoVal

\* calculate_backoff has not been called; the config is the default one
NoCalculation ==
    /\ b_config = DefaultRetryConfig
    /\ computed = NoVal

\* a client built by HttpClient::new with an API key; the clock at its start
NoClient ==
    /\ cl = [base_url |-> "https://api.hume.ai", auth |-> Some(ApiKey("key")),
             default_timeout |-> DefaultTimeout, max_retries |-> DefaultMaxRetries]
    /\ utc_now = 0
    /\ expiry_seen = NoVal

CallIds == 1..MaxConcurrent

\* a call of execute_request that has not begun
IdleCall ==
    [pc |-> "idle", attempts |-> 0, elapsed |-> 0, current_interval |-> InitialInterval,
     delay |-> 0, last_error |-> NoVal, header |-> None, result |-> NoVal]

\* no call is in flight and no handshake was made
NoTraffic ==
    /\ inflight = [c \in CallIds |-> IdleCall]
    /\ handshake = NoVal

\* neither request_bytes nor request_stream has returned
NoRawCall == raw_result = NoVal

\* wait_for_job_completion has not been called
NoWait ==
    /\ w_pc = "idle"
    /\ w_poll_interval = 1
    /\ w_max_wait = None
    /\ w_elapsed = 0
    /\ w_polls = 0
    /\ w_job = NoVal
    /\ w_result = NoVal

NoLate == NoCalculation /\ NoClient /\ NoTraffic /\ NoRawCall /\ NoWait

NoExtras == NoScript /\ NoCalls /\ NoMessage /\ NoRetryLoop /\ NoLate

UInit ==
    /\ client_max_retries \in {0, DefaultMaxRetries, MaxRetriesBound}
    /\ opt_max_retries = None
    /\ upc = "idle"
    /\ attempts = 0
    /\ elapsed = 0
    /\ current_interval = InitialInterval
    /\ last_outcome = NoVal
    /\ earlier_5xx = TRUE
    /\ drawn = None
    /\ delay = 0
    /\ exec_result = NoVal
    /\ result = NoVal
    /\ NoSession
    /\ NoExtras

\* execute_request is entered: options resolved, backoff built and reset
StartCall(opt) ==
    /\ upc = "idle"
    /\ opt_max_retries' = opt
    /\ upc' = "sending"
    /\ attempts' = 0
    /\ elapsed' = 0
    /\ current_interval' = InitialInterval
    /\ last_outcome' = NoVal
    /\ earlier_5xx' = TRUE
    /\ drawn' = None
    /\ delay' = 0
    /\ exec_result' = NoVal
    /\ result' = NoVal
    /\ UNCHANGED <<client_max_retries, dvars, xvars>>

\* execute_request returns v; request() turns it into the caller's result
Return(v) ==
    /\ upc' = "done"
    /\ exec_result' = v
    /\ result' = RequestResult(v)
    /\ delay' = 0

\* One run of the closure followed by retry()'s decision on its result
Try(o, r) ==
    LET max_retries == EffectiveMaxRetries(opt_max_retries, client_max_retries)
        res == AttemptResult(o, max_retries)
        now == elapsed + o.took
        nb  == NextBackoff(now, current_interval, r)
    IN  /\ upc = "sending"
        /\ attempts' = attempts + 1
        /\ elapsed' = now
        /\ last_outcome' = o
        /\ earlier_5xx' = (earlier_5xx /\ (attempts > 0 => Is5xx(last_outcome)))
        /\ CASE res.kind = "ok" ->
                  /\ Return([kind |-> "Ok", resp |-> res.resp])
                  /\ UNCHANGED <<current_interval, drawn>>
             [] res.kind = "permanent" ->
                  /\ Return([kind |-> "Err", err |-> res.err])
                  /\ UNCHANGED <<current_interval, drawn>>
             [] res.kind = "transient" ->
                  /\ current_interval' = IntervalAfterBackoff(now, current_interval)
                  /\ drawn' = DrawnInterval(now, current_interval, r)
                  /\ IF nb.some
                     THEN /\ upc' = "sleeping"
                          /\ delay' = nb.val
                          /\ UNCHANGED <<exec_result, result>>
                     ELSE Return([kind |-> "Err", err |-> res.err])
        /\ UNCHANGED <<client_max_retries, opt_max_retries, dvars, xvars>>

\* Try, for the attempts of one call the model follows
Attempt(o, r) ==
    /\ attempts < MaxAttempts
    /\ Try(o, r)

\* The sleep scheduled by retry() is over; the closure runs again
Wake ==
    /\ upc = "sleeping"
    /\ upc' = "sending"
    /\ elapsed' = elapsed + delay
    /\ UNCHANGED <<client_max_retries, opt_max_retries, attempts, current_interval,
                   last_outcome, earlier_5xx, drawn, delay, exec_result, result, dvars, xvars>>

\* The caller has its result; the client is ready for the next call
Finish ==
    /\ upc = "done"
    /\ upc' = "idle"
    /\ UNCHANGED <<client_max_retries, opt_max_retries, attempts, elapsed,
                   current_interval, last_outcome, earlier_5xx, drawn, delay, exec_result,
                   result, dvars, xvars>>

\* HttpClient::set_max_retries: `&mut self`, hence between the calls that
\* borrow the client
SetMaxRetries(n) ==
    /\ upc = "idle"
    /\ client_max_retries' = n
    /\ UNCHANGED <<opt_max_retries, upc, attempts, elapsed, current_interval,
                   last_outcome, earlier_5xx, drawn, delay, exec_result, result,
                   dvars, xvars>>

UNext ==
    \/ \E opt \in {None} \cup {Some(n) : n \in RetryChoices} : StartCall(opt)
    \/ \E o \in Outcomes, r \in JitterDraws : Attempt(o, r)
    \/ Wake
    \/ Finish
    \/ \E n \in {0, DefaultMaxRetries, MaxRetriesBound} : SetMaxRetries(n)

SpecUnary == UInit /\ [][UNext]_vars

(***************************************************************************)
(* evi/chat.rs: messages                                                   *)
(***************************************************************************)
Ok(v) == [kind |-> "Ok", val |-> v]
Err(e) == [kind |-> "Err", err |-> e]

\* the variants of ServerMessage that carry a tag of their own
KnownServerTags ==
    {"session_started", "user_message", "assistant_message", "audio_output",
     "tool_call", "tool_response", "tool_error", "emotion_inference",
     "error", "warning", "session_ended"}

Unknown == [variant |-> "unknown"]

\* The text of an inbound frame, as far as decoding looks at it: its form
\* (a JSON object, a JSON array, or anything else: a scalar, text that is
\* not JSON), its tag if it has one (the one string under `type` of an
\* object, the string that is the first element of an array), and what
\* comes with the tag: the other members of the object in the order they
\* are written, a member written twice appearing twice, or the elements
\* that follow the tag in the array (their key is ""). Of a value only its
\* kind is kept: a string, a number (one that fits u32), a boolean, null,
\* an array (of strings), an object (an empty one), the encoding of a
\* Config, the encoding of an EmotionInference.
Val(key, kind) == [key |-> key, kind |-> kind]

\* the fields of each tagged variant of ServerMessage in the order they
\* are declared, with their types; Unknown has none
Req(name, type) == [name |-> name, type |-> type, optional |-> FALSE]
Opt(name, type) == [name |-> name, type |-> type, optional |-> TRUE]

FieldsOf(tag) ==
    CASE tag = "session_started" ->
             <<Req("session_id", "String"), Req("chat_id", "String"),
               Req("chat_group_id", "String"), Req("config", "Config")>>
      [] tag = "user_message" -> <<Req("message_id", "String"), Req("text", "String")>>
      [] tag = "assistant_message" ->
             <<Req("message_id", "String"), Req("text", "String"),
               Req("is_final", "bool")>>
      [] tag = "audio_output" ->
             <<Req("message_id", "String"), Req("data", "String"), Req("index", "u32")>>
      [] tag = "tool_call" ->
             <<Req("tool_call_id", "String"), Req("name", "String"),
               Req("parameters", "Value")>>
      [] tag = "tool_response" ->
             <<Req("tool_call_id", "String"), Req("content", "String")>>
      [] tag = "tool_error" ->
             <<Req("tool_call_id", "String"), Req("error", "String"),
               Opt("code", "String")>>
      [] tag = "emotion_inference" -> <<Req("inference", "EmotionInference")>>
      [] tag = "error" ->
             <<Req("message", "String"), Req("code", "String"), Opt("details", "Value")>>
      [] tag = "warning" -> <<Req("message", "String"), Opt("code", "String")>>
      [] tag = "session_ended" -> <<Req("reason", "String"), Opt("info", "Value")>>
      [] OTHER -> <<>>

\* Deserialize of the type of field f, given a value of this kind: null is
\* None for an Option, serde_json::Value takes every value
Fits(f, kind) ==
    \/ f.optional /\ kind = "null"
    \/ CASE f.type = "String" -> kind = "string"
         [] f.type = "bool" -> kind = "bool"
         [] f.type = "u32" -> kind = "number"
         [] f.type = "Value" -> TRUE
         [] f.type = "Config" -> kind = "config"
         [] f.type = "EmotionInference" -> kind = "inference"
         [] OTHER -> FALSE

\* the derived visit_map of a struct variant: every field at most once and
\* of its type, the fields that are no Option all there; members that are
\* no field of the variant are skipped
FitsMap(fields, members) ==
    \A i \in 1..Len(fields) :
        LET at == {j \in 1..Len(members) : members[j].key = fields[i].name}
        IN  /\ Cardinality(at) <= 1
            /\ ~fields[i].optional => at # {}
            /\ \A j \in at : Fits(fields[i], members[j].kind)

\* the derived visit_seq of a struct variant: one element for every field,
\* Option fields included, in the order of declaration, and no element more
FitsSeq(fields, elements) ==
    /\ Len(elements) = Len(fields)
    /\ \A i \in 1..Len(fields) : Fits(fields[i], elements[i].kind)

TextPayloads ==
    { [form |-> "object", tag |-> Some("assistant_message"),
       others |-> <<Val("message_id", "string"), Val("text", "string"),
                  Val("is_final", "bool")>>],
      [form |-> "object", tag |-> Some("user_message"),
       others |-> <<Val("message_id", "string")>>],
      [form |-> "object", tag |-> Some("future_kind"), others |-> <<>>],
      [form |-> "other",  tag |-> None, others |-> <<>>] }

\* texts that are JSON arrays: ["future_kind"], ["future_kind",1],
\* ["user_message","m","a"], ["user_message","m","a","x"], ["warning","w"]
ArrayPayloads ==
    { [form |-> "array", tag |-> Some("future_kind"),  others |-> <<>>],
      [form |-> "array", tag |-> Some("future_kind"),  others |-> <<Val("", "number")>>],
      [form |-> "array", tag |-> Some("user_message"),
       others |-> <<Val("", "string"), Val("", "string")>>],
      [form |-> "array", tag |-> Some("user_message"),
       others |-> <<Val("", "string"), Val("", "string"), Val("", "string")>>],
      [form |-> "array", tag |-> Some("warning"), others |-> <<Val("", "string")>>] }

\* objects whose members do not fit the variant of their tag: `text` an
\* array, `text` written twice; and objects that carry more than the
\* variant asks for: a member the variant does not have, `code` null
OddPayloads ==
    { [form |-> "object", tag |-> Some("user_message"),
       others |-> <<Val("message_id", "string"), Val("text", "array")>>],
      [form |-> "object", tag |-> Some("user_message"),
       others |-> <<Val("message_id", "string"), Val("text", "string"),
                  Val("text", "string")>>],
      [form |-> "object", tag |-> Some("warning"),
       others |-> <<Val("message", "string"), Val("code", "null"),
                  Val("extra", "number")>>],
      [form |-> "object", tag |-> Some("future_kind"),
       others |-> <<Val("text", "number"), Val("text", "number")>>] }

\* the derived Deserialize of an internally tagged enum takes a map, and a
\* sequence that begins with the tag
IsTagged(p) == p.form \in {"object", "array"} /\ p.tag.some

\* what comes with the tag is what the variant of the tag takes; the unit
\* variant Unknown takes every map and the empty sequence
Accepts(p) ==
    IF p.tag.val \in KnownServerTags
    THEN IF p.form = "object"
         THEN FitsMap(FieldsOf(p.tag.val), p.others)
         ELSE FitsSeq(FieldsOf(p.tag.val), p.others)
    ELSE p.form = "object" \/ p.others = <<>>

\* the value of a known variant decoded from payload p: its fields, where
\* the payload spells them out
MessageOf(p) ==
    IF "text" \in DOMAIN p
    THEN [variant |-> p.tag.val, text |-> p.text, is_final |-> p.is_final]
    ELSE [variant |-> p.tag.val]

\* ServerMessage without its #[serde(other)] variant
DecodeServerMessage_without_other(p) ==
    IF ~IsTagged(p)
    THEN Err([kind |-> "Json"])
    ELSE IF p.tag.val \in KnownServerTags /\ Accepts(p)
         THEN Ok(MessageOf(p))
         ELSE Err([kind |-> "Json"])

\* serde_json::from_str::<ServerMessage>: #[serde(tag = "type",
\* rename_all = "snake_case")] with #[serde(other)] Unknown
DecodeServerMessage(p) ==
    IF ~IsTagged(p) \/ ~Accepts(p)
    THEN Err([kind |-> "Json"])
    ELSE IF p.tag.val \in KnownServerTags
         THEN Ok(MessageOf(p))
         ELSE Ok(Unknown)

\* the kinds of ClientMessage, one for each send method of ChatSocket:
\* send_session_settings, send_audio, send_text, send_assistant_input,
\* send_tool_response, send_tool_error, pause_assistant, resume_assistant
ClientKinds ==
    {"session_settings", "audio_input", "user_input", "assistant_input",
     "tool_response", "tool_error", "pause_assistant", "resume_assistant"}

TextFrame(p) == [kind |-> "Text", payload |-> p]
CloseFrame == [kind |-> "Close"]

\* frames a server puts on the connection of the duplex session: a message
\* that decodes, one of a kind not known, a text that does not decode, a
\* ping, a close frame, and Invalid, which stands for a frame that breaks
\* the WebSocket protocol (bad UTF-8, bad opcode, oversize)
ServerFrames ==
    {TextFrame(p) : p \in {q \in TextPayloads : q.tag # Some("user_message")}}
    \cup {[kind |-> k] : k \in {"Ping", "Close", "Invalid"}}

(***************************************************************************)
(* ChatSocket.ws: tungstenite WebSocket under tokio-tungstenite's stream   *)
(***************************************************************************)
WsErr(e) == Err([kind |-> "WebSocket", cause |-> e])

\* WebSocketState::is_active, had it counted a closing connection as active
IsActive_while_closing(st) == st # "Terminated"

\* WebSocketState::is_active / can_read
IsActive(st) == st = "Active"
CanRead(st) == st \in {"Active", "ClosedByUs"}

\* the transport fails every read and write: the peer reset the connection
\* (an I/O error of kind ConnectionReset), or it broke in another way
IsDown(n) == n \in {"reset", "broken"}

\* the frames a flush puts on the wire for the reply owed: a pong for a
\* ping that was read, the close frame that answers the peer's
Owed(add) == IF add = "none" THEN <<>> ELSE <<[kind |-> add]>>

\* the reply owed once frame f was read in state st, the one owed before
\* having been flushed: set_additional in the Ping arm and in do_close
ReplyTo(st, f) ==
    IF ~IsActive(st) THEN "none"
    ELSE IF f.kind = "Ping" THEN "Pong"
    ELSE IF f.kind = "Close" THEN "Close"
    ELSE "none"

\* WebSocket::read, had it handed out the newest buffered frame first
ws_read_newest_first(st, add, inb, n) ==
    IF st = "Terminated"
    THEN [res |-> Err("AlreadyClosed"), state |-> st, took |-> FALSE,
          add |-> add, wrote |-> <<>>]
    ELSE IF add # "none" /\ IsDown(n)
    THEN [res |-> IF n = "reset" /\ ~CanRead(st)
                  THEN Err("ConnectionClosed") ELSE Err("Io"),
          state |-> st, took |-> FALSE, add |-> "none", wrote |-> <<>>]
    ELSE IF inb # <<>>
         THEN IF ~CanRead(st)
              THEN [res |-> Err("ReceivedAfterClosing"), state |-> st, took |-> TRUE,
                    add |-> "none", wrote |-> Owed(add)]
              ELSE IF inb[Len(inb)].kind = "Invalid"
                   THEN [res |-> Err("Protocol"), state |-> st, took |-> TRUE,
                         add |-> "none", wrote |-> Owed(add)]
                   ELSE IF inb[Len(inb)].kind = "Close"
                        THEN [res |-> Ok(inb[Len(inb)]),
                              state |-> IF st = "Active" THEN "ClosedByPeer"
                                        ELSE "CloseAcknowledged",
                              took |-> TRUE,
                              add |-> ReplyTo(st, inb[Len(inb)]), wrote |-> Owed(add)]
                        ELSE [res |-> Ok(inb[Len(inb)]), state |-> st, took |-> TRUE,
                              add |-> ReplyTo(st, inb[Len(inb)]), wrote |-> Owed(add)]
         ELSE IF n = "eof"
              THEN [res |-> IF st \in {"ClosedByPeer", "CloseAcknowledged"}
                            THEN Err("ConnectionClosed")
                            ELSE Err("ResetWithoutClosingHandshake"),
                    state |-> "Terminated", took |-> FALSE,
                    add |-> "none", wrote |-> Owed(add)]
              ELSE IF n = "reset" /\ ~CanRead(st)
                   THEN [res |-> Err("ConnectionClosed"), state |-> st, took |-> FALSE,
                         add |-> "none", wrote |-> <<>>]
                   ELSE [res |-> Err("Io"), state |-> st, took |-> FALSE,
                         add |-> "none", wrote |-> <<>>]

\* WebSocket::read on a connection that owes the reply add, has the frames
\* inb buffered and its transport in condition n; called only when it does
\* not have to wait. The reply owed is written first, and a write that
\* fails is the result of the read; then the next frame is taken; with no
\* frame left, the end of the stream or the I/O error is met. Of the I/O
\* errors, a connection reset once the peer's close frame was read counts
\* as the close (check_connection_reset)
ws_read(st, add, inb, n) ==
    IF st = "Terminated"
    THEN [res |-> Err("AlreadyClosed"), state |-> st, took |-> FALSE,
          add |-> add, wrote |-> <<>>]
    ELSE IF add # "none" /\ IsDown(n)
    THEN [res |-> IF n = "reset" /\ ~CanRead(st)
                  THEN Err("ConnectionClosed") ELSE Err("Io"),
          state |-> st, took |-> FALSE, add |-> "none", wrote |-> <<>>]
    ELSE IF inb # <<>>
         THEN IF ~CanRead(st)
              THEN [res |-> Err("ReceivedAfterClosing"), state |-> st, took |-> TRUE,
                    add |-> "none", wrote |-> Owed(add)]
              ELSE IF Head(inb).kind = "Invalid"
                   THEN [res |-> Err("Protocol"), state |-> st, took |-> TRUE,
                         add |-> "none", wrote |-> Owed(add)]
                   ELSE IF Head(inb).kind = "Close"
                        THEN [res |-> Ok(Head(inb)),
                              state |-> IF st = "Active" THEN "ClosedByPeer"
                                        ELSE "CloseAcknowledged",
                              took |-> TRUE,
                              add |-> ReplyTo(st, Head(inb)), wrote |-> Owed(add)]
                        ELSE [res |-> Ok(Head(inb)), state |-> st, took |-> TRUE,
                              add |-> ReplyTo(st, Head(inb)), wrote |-> Owed(add)]
         ELSE IF n = "eof"
              THEN [res |-> IF st \in {"ClosedByPeer", "CloseAcknowledged"}
                            THEN Err("ConnectionClosed")
                            ELSE Err("ResetWithoutClosingHandshake"),
                    state |-> "Terminated", took |-> FALSE,
                    add |-> "none", wrote |-> Owed(add)]
              ELSE IF n = "reset" /\ ~CanRead(st)
                   THEN [res |-> Err("ConnectionClosed"), state |-> st, took |-> FALSE,
                         add |-> "none", wrote |-> <<>>]
                   ELSE [res |-> Err("Io"), state |-> st, took |-> FALSE,
                         add |-> "none", wrote |-> <<>>]

\* WebSocket::write(frame) followed by flush, as Sink::send does: the frame
\* is buffered, the reply owed behind it, and both are written out
ws_write(st, add, n, f) ==
    IF st = "Terminated"
    THEN [res |-> Err("AlreadyClosed"), state |-> st, add |-> add, wrote |-> <<>>]
    ELSE IF ~IsActive(st)
         THEN [res |-> Err("SendAfterClosing"), state |-> st, add |-> add,
               wrote |-> <<>>]
         ELSE IF IsDown(n)
              THEN [res |-> Err("Io"), state |-> st, add |-> "none", wrote |-> <<>>]
              ELSE [res |-> Ok(f),
                    state |-> IF f.kind = "Close" THEN "ClosedByUs" ELSE st,
                    add |-> "none", wrote |-> <<f>> \o Owed(add)]

\* <WebSocketStream as Stream>::poll_next: the item of ws.next()
stream_next(is_ended, read) ==
    IF is_ended
    THEN None
    ELSE IF read.res.kind = "Ok"
         THEN Some(read.res)
         ELSE IF read.res.err \in {"AlreadyClosed", "ConnectionClosed"}
              THEN None
              ELSE Some(read.res)

\* receive(), had its catch-all arm been `_ => Ok(None)`
receive_result_other_none(item) ==
    IF ~item.some
    THEN Ok(None)
    ELSE IF item.val.kind = "Err"
         THEN WsErr(item.val.err)
         ELSE IF item.val.val.kind = "Text"
              THEN IF DecodeServerMessage(item.val.val.payload).kind = "Ok"
                   THEN Ok(Some(DecodeServerMessage(item.val.val.payload).val))
                   ELSE DecodeServerMessage(item.val.val.payload)
              ELSE Ok(None)

\* receive(), had it dropped the decode error with .ok()
receive_result_swallow(item) ==
    IF ~item.some
    THEN Ok(None)
    ELSE IF item.val.kind = "Err"
         THEN WsErr(item.val.err)
         ELSE IF item.val.val.kind = "Text"
              THEN IF DecodeServerMessage(item.val.val.payload).kind = "Ok"
                   THEN Ok(Some(DecodeServerMessage(item.val.val.payload).val))
                   ELSE Ok(None)
              ELSE IF item.val.val.kind = "Close"
                   THEN Ok(None)
                   ELSE Ok(Some(Unknown))

\* ChatSocket::receive: the match on ws.next().await
receive_result(item) ==
    IF ~item.some
    THEN Ok(None)
    ELSE IF item.val.kind = "Err"
         THEN WsErr(item.val.err)
         ELSE IF item.val.val.kind = "Text"
              THEN IF DecodeServerMessage(item.val.val.payload).kind = "Ok"
                   THEN Ok(Some(DecodeServerMessage(item.val.val.payload).val))
                   ELSE DecodeServerMessage(item.val.val.payload)
              ELSE IF item.val.val.kind = "Close"
                   THEN Ok(None)
                   ELSE Ok(Some(Unknown))

\* close(&mut self): the handle would stay with the caller
HandleAfterClose_borrowed == "live"

\* close(mut self) takes the ChatSocket by value
HandleAfterClose == "consumed"

(***************************************************************************)
(* Duplex session: actions                                                 *)
(***************************************************************************)
MaxReceives == MaxFrames + 2

\* what the caller has learnt about the end of the session
Observe(seen) == IF observed = "nothing" THEN seen ELSE observed

DInit ==
    /\ client_max_retries = DefaultMaxRetries
    /\ opt_max_retries = None
    /\ upc = "idle"
    /\ attempts = 0
    /\ elapsed = 0
    /\ current_interval = InitialInterval
    /\ last_outcome = NoVal
    /\ earlier_5xx = TRUE
    /\ drawn = None
    /\ delay = 0
    /\ exec_result = NoVal
    /\ result = NoVal
    /\ NoSession
    /\ NoExtras

\* ChatClient::connect: connect_async succeeds or fails
Connect(ok) ==
    /\ handle = "connecting"
    /\ handle' = IF ok THEN "live" ELSE "failed"
    /\ observed' = IF ok THEN observed ELSE "failed_handshake"
    /\ UNCHANGED <<ws_state, additional_send, ended, net, inbound, emitted, wire, sends,
                   consumed, returned, last_send, last_close, uvars, xvars>>

\* what does not belong to the session and its scripts
rest == <<uvars, tvars, cvars, rvars, zvars>>

\* ChatSocket::send_message, had it put each message ahead of the frames
\* written before it
send_message_newest_first(kind) ==
    LET w == ws_write(ws_state, additional_send, net, TextFrame([type |-> kind]))
    IN  /\ sends' = sends + 1
        /\ last_send' = IF w.res.kind = "Ok" THEN Ok("unit") ELSE WsErr(w.res.err)
        /\ wire' = w.wrote \o wire
        /\ ws_state' = w.state
        /\ additional_send' = w.add
        /\ observed' = IF w.res.kind = "Err" /\ w.res.err = "Io"
                       THEN Observe("failed_write") ELSE observed
        /\ UNCHANGED <<ended, net, inbound, emitted, consumed, returned,
                       last_close, rest>>

\* ChatSocket::send_message, whoever holds the socket
send_message(kind) ==
    LET w == ws_write(ws_state, additional_send, net, TextFrame([type |-> kind]))
    IN  /\ sends' = sends + 1
        /\ last_send' = IF w.res.kind = "Ok" THEN Ok("unit") ELSE WsErr(w.res.err)
        /\ wire' = wire \o w.wrote
        /\ ws_state' = w.state
        /\ additional_send' = w.add
        /\ observed' = IF w.res.kind = "Err" /\ w.res.err = "Io"
                       THEN Observe("failed_write") ELSE observed
        /\ UNCHANGED <<ended, net, inbound, emitted, consumed, returned,
                       last_close, rest>>

\* the application calls one of the send methods of ChatSocket, each of
\* which hands its ClientMessage to send_message
Send(kind) ==
    /\ handle = "live"
    /\ sends < MaxSends
    /\ send_message(kind)
    /\ UNCHANGED <<handle, svars>>

\* the inbound event a receive() that does not wait is about to meet
NextEvent ==
    IF ended THEN [src |-> "ended", st |-> ws_state]
    ELSE IF ws_state = "Terminated" THEN [src |-> "terminated", st |-> ws_state]
    ELSE IF additional_send # "none" /\ IsDown(net)
         THEN [src |-> net, st |-> ws_state]
    ELSE IF inbound # <<>>
         THEN [src |-> "frame", st |-> ws_state, frame |-> Head(inbound)]
         ELSE [src |-> net, st |-> ws_state]

\* ChatSocket::receive
Receive ==
    LET read == ws_read(ws_state, additional_send, inbound, net)
        item == stream_next(ended, read)
        res  == receive_result(item)
        ev   == NextEvent
    IN  /\ handle = "live"
        /\ Len(returned) < MaxReceives
        /\ ended \/ ws_state = "Terminated" \/ inbound # <<>> \/ net # "up"
        /\ returned' = Append(returned, res)
        /\ consumed' = Append(consumed, ev)
        /\ ended' = (ended \/ read.res.kind = "Err")
        /\ ws_state' = IF ended THEN ws_state ELSE read.state
        /\ additional_send' = IF ended THEN additional_send ELSE read.add
        /\ wire' = IF ended THEN wire ELSE wire \o read.wrote
        /\ inbound' = IF ~ended /\ read.took THEN Tail(inbound) ELSE inbound
        /\ observed' =
             IF ev.src = "frame" /\ ev.frame.kind = "Close" /\ read.res.kind = "Ok"
                THEN Observe("closed")
             ELSE IF ev.src \in {"eof", "reset"}
                THEN IF read.res.err = "ConnectionClosed"
                     THEN Observe("closed") ELSE Observe("failed_read")
             ELSE IF ev.src = "broken"
                THEN Observe("failed_read")
             ELSE observed
        /\ UNCHANGED <<handle, net, emitted, sends, last_send, last_close, uvars, xvars>>

\* receive() is polled while nothing has arrived: WebSocket::read flushes
\* the reply owed, then the call waits (or is dropped by its caller)
ReceiveWaits ==
    /\ handle = "live"
    /\ ~ended /\ ws_state # "Terminated"
    /\ additional_send # "none"
    /\ inbound = <<>> /\ net = "up"
    /\ wire' = wire \o Owed(additional_send)
    /\ additional_send' = "none"
    /\ UNCHANGED <<handle, ws_state, ended, net, inbound, emitted, sends, consumed,
                   returned, last_send, last_close, observed, uvars, xvars>>

\* ChatSocket::close
Close ==
    LET w == ws_write(ws_state, additional_send, net, CloseFrame)
    IN  /\ handle = "live"
        /\ handle' = HandleAfterClose
        /\ last_close' = IF w.res.kind = "Ok" THEN Ok("unit") ELSE WsErr(w.res.err)
        /\ wire' = wire \o w.wrote
        /\ ws_state' = w.state
        /\ additional_send' = w.add
        /\ observed' = Observe("closed")
        /\ UNCHANGED <<ended, net, inbound, emitted, sends, consumed, returned,
                       last_send, uvars, xvars>>

\* the connection stands: the handshake is done and the socket was neither
\* closed nor dropped
Connected == handle \in {"pushing", "live"}

\* a frame of the server arrives
Emit(f) ==
    /\ Connected
    /\ net = "up"
    /\ emitted' = emitted + 1
    /\ inbound' = Append(inbound, f)
    /\ UNCHANGED <<handle, ws_state, additional_send, ended, net, wire, sends, consumed,
                   returned, last_send, last_close, observed, rest>>

\* the server writes a frame
ServerEmit(f) ==
    /\ emitted < MaxFrames
    /\ Emit(f)
    /\ UNCHANGED svars

\* the server shuts the TCP connection down
ServerEOF ==
    /\ Connected
    /\ net = "up"
    /\ net' = "eof"
    /\ UNCHANGED <<handle, ws_state, additional_send, ended, inbound, emitted, wire,
                   sends, consumed, returned, last_send, last_close, observed, uvars,
                   xvars>>

\* the connection fails, reset by the peer or broken in another way (how);
\* the frames in flight were all received (n = their number) or are all
\* lost (n = 0)
NetBreak(n, how) ==
    /\ Connected
    /\ net \in {"up", "eof"}
    /\ n <= Len(inbound)
    /\ net' = how
    /\ inbound' = SubSeq(inbound, 1, n)
    /\ UNCHANGED <<handle, ws_state, additional_send, ended, emitted, wire, sends,
                   consumed, returned, last_send, last_close, observed, uvars, xvars>>

DNext ==
    \/ \E ok \in BOOLEAN : Connect(ok)
    \/ \E k \in ClientKinds : Send(k)
    \/ Receive
    \/ ReceiveWaits
    \/ Close
    \/ \E f \in ServerFrames : ServerEmit(f)
    \/ ServerEOF
    \/ \E n \in {0, Len(inbound)}, how \in {"reset", "broken"} : NetBreak(n, how)

SpecDuplex == DInit /\ [][DNext]_vars

(***************************************************************************)
(* Session built by ChatSessionBuilder, with a scripted application and    *)
(* a server that speaks one utterance in chunks                            *)
(***************************************************************************)
\* an AssistantMessage chunk, as the payload of a text frame
ChunkPayload(text, final) ==
    [form |-> "object", tag |-> Some("assistant_message"),
     others |-> <<Val("message_id", "string"), Val("text", "string"),
                Val("is_final", "bool")>>,
     text |-> text, is_final |-> final]

Chunks == {ChunkPayload(<<"a">>, FALSE), ChunkPayload(<<"b">>, TRUE)}

SettingsFrame == TextFrame([type |-> "session_settings"])

\* ChatSessionBuilder::connect, had it returned the socket without the push
InitialFrames_none(settings) == <<>>

\* ChatSessionBuilder::connect: what is sent before the socket is returned
InitialFrames(settings) ==
    IF settings.some THEN <<"session_settings">> ELSE <<>>

SInit ==
    /\ client_max_retries = DefaultMaxRetries
    /\ opt_max_retries = None
    /\ upc = "idle"
    /\ attempts = 0
    /\ elapsed = 0
    /\ current_interval = InitialInterval
    /\ last_outcome = NoVal
    /\ earlier_5xx = TRUE
    /\ drawn = None
    /\ delay = 0
    /\ exec_result = NoVal
    /\ result = NoVal
    /\ NoSession
    /\ builder_settings \in {None, Some("settings")}
    /\ outbox = <<>>
    /\ utterance = <<>>
    /\ NoCalls
    /\ NoMessage
    /\ NoRetryLoop
    /\ NoLate

\* ChatSessionBuilder::connect up to its second await: ChatClient::connect,
\* after which the socket is handed to the caller at once when there are no
\* settings to push
BuilderConnect(ok) ==
    /\ handle = "connecting"
    /\ handle' = IF ~ok THEN "failed"
                 ELSE IF InitialFrames(builder_settings) = <<>> THEN "live"
                 ELSE "pushing"
    /\ observed' = IF ok THEN observed ELSE "failed_handshake"
    /\ UNCHANGED <<ws_state, additional_send, ended, net, inbound, emitted, wire, sends,
                   consumed, returned, last_send, last_close, svars, rest>>

\* ChatSessionBuilder::connect from its second await on:
\* send_session_settings hands the settings to send_message, then the
\* socket is handed to the caller; `?` drops the socket when the write fails
PushSettings ==
    /\ handle = "pushing"
    /\ send_message(InitialFrames(builder_settings)[1])
    /\ handle' = IF last_send' = Ok("unit") THEN "live" ELSE "failed"
    /\ UNCHANGED svars

\* the application calls one of the send methods of ChatSocket; outbox
\* keeps its calls in order
SendNext(kind) ==
    /\ handle = "live"
    /\ Len(outbox) < MaxOutbox
    /\ send_message(kind)
    /\ outbox' = Append(outbox, kind)
    /\ UNCHANGED <<handle, builder_settings, utterance>>

\* the server emits a chunk of its utterance, none after the final one;
\* utterance keeps the chunks in order
ServerSpeak(chunk) ==
    /\ emitted < MaxChunks
    /\ \A i \in 1..Len(utterance) : ~utterance[i].is_final
    /\ Emit(TextFrame(chunk))
    /\ utterance' = Append(utterance, chunk)
    /\ UNCHANGED <<builder_settings, outbox>>

\* the application reads the session to its end: it calls receive() until
\* a call returns None or an error
ReceiveNext ==
    /\ \A i \in 1..Len(returned) : returned[i].kind = "Ok" /\ returned[i].val.some
    /\ Receive

\* the server of a built session sends no close frame, so the connection
\* stays active and every failure of the transport acts as a broken one
SNext ==
    \/ \E ok \in BOOLEAN : BuilderConnect(ok)
    \/ PushSettings
    \/ \E k \in ClientKinds : SendNext(k)
    \/ ReceiveNext
    \/ Close
    \/ \E chunk \in Chunks : ServerSpeak(chunk)
    \/ ServerEOF
    \/ \E n \in {0, Len(inbound)} : NetBreak(n, "broken")

SpecSession == SInit /\ [][SNext]_vars

(***************************************************************************)
(* Tasks sharing one ChatSocket: send_message and receive take &mut self   *)
(***************************************************************************)
SocketMethods == {"send", "receive"}

\* the methods, had they taken &self: a call could start during another
MayBorrow_shared(calls) == TRUE

\* &mut self: a method call can start only while no other call on the same
\* ChatSocket is in progress
MayBorrow(calls) == \A t \in Tasks : calls[t] = NoVal

TInit ==
    /\ client_max_retries = DefaultMaxRetries
    /\ opt_max_retries = None
    /\ upc = "idle"
    /\ attempts = 0
    /\ elapsed = 0
    /\ current_interval = InitialInterval
    /\ last_outcome = NoVal
    /\ earlier_5xx = TRUE
    /\ drawn = None
    /\ delay = 0
    /\ exec_result = NoVal
    /\ result = NoVal
    /\ NoSession
    /\ NoExtras

\* task t enters send_message or receive: the first half of the frame is
\* written (read)
BeginCall(t, m) ==
    /\ handle = "live"
    /\ in_call[t] = NoVal
    /\ calls_begun < MaxCalls
    /\ MayBorrow(in_call)
    /\ calls_begun' = calls_begun + 1
    /\ in_call' = [in_call EXCEPT ![t] = [kind |-> m, call |-> calls_begun + 1]]
    /\ io_log' = Append(io_log, [kind |-> m, task |-> t, call |-> calls_begun + 1,
                                 half |-> 1])
    /\ UNCHANGED <<uvars, dvars, svars, cvars, rvars, zvars>>

\* the call of task t completes: the second half is written (read) and the
\* borrow ends
EndCall(t) ==
    /\ in_call[t] # NoVal
    /\ in_call' = [in_call EXCEPT ![t] = NoVal]
    /\ io_log' = Append(io_log, [kind |-> in_call[t].kind, task |-> t,
                                 call |-> in_call[t].call, half |-> 2])
    /\ UNCHANGED <<calls_begun, uvars, dvars, svars, cvars, rvars, zvars>>

TNext ==
    \/ \E ok \in BOOLEAN : Connect(ok)
    \/ \E t \in Tasks, m \in SocketMethods : BeginCall(t, m)
    \/ \E t \in Tasks : EndCall(t)

SpecTasks == TInit /\ [][TNext]_vars

(***************************************************************************)
(* evi/chat.rs: ClientMessage and its encoding                             *)
(***************************************************************************)
\* JSON values
JStr(x) == [str |-> x]
JArr(x) == [arr |-> x]
JObj(x) == [obj |-> x]
JNum(x) == [num |-> x]

Strings == {"", "a", "b"}
OptStrings == {None} \cup {Some(x) : x \in Strings}

\* evi::models::AudioConfig; an enum value is named by the words of its name
AudioConfigs ==
    [input_encoding : {None, Some(<<"linear16">>)},
     input_sample_rate : {Some(16000)},
     output_encoding : {None},
     output_sample_rate : {None},
     output_format : {Some(<<"wav">>)}]

\* evi::models::Context
Contexts == [context_type : {<<"persistent">>}, text : {"a"}]

\* evi::models::BuiltinTool
BuiltinTools == [name : {"a"}, config : {None}]

\* evi::models::SessionSettings; a HashMap is the set of its entries
SessionSettingsValues ==
    [audio : {None} \cup {Some(a) : a \in AudioConfigs},
     system_prompt : {None, Some(""), Some("a")},
     context : {None} \cup {Some(c) : c \in Contexts},
     variables : {None, Some({[key |-> "a", value |-> "b"]})},
     tools : {None, Some(<<>>), Some(<<"a">>)},
     builtin_tools : {None} \cup {Some(<<t>>) : t \in BuiltinTools}]

\* the values of ClientMessage; a variant is named by the words of its name
ClientMessages ==
    [variant : {<<"session", "settings">>}, settings : SessionSettingsValues]
    \cup [variant : {<<"audio", "input">>}, data : Strings]
    \cup [variant : {<<"user", "input">>}, text : Strings]
    \cup [variant : {<<"assistant", "input">>}, text : Strings]
    \cup [variant : {<<"tool", "response">>}, tool_call_id : {"a"}, content : Strings,
          tool_name : OptStrings]
    \cup [variant : {<<"tool", "error">>}, tool_call_id : {"a"}, error : {"b"},
          code : OptStrings, tool_name : OptStrings]
    \cup [variant : {<<"pause", "assistant">>}]
    \cup [variant : {<<"resume", "assistant">>}]

\* #[serde(rename_all = "snake_case")] applied to a variant name
RECURSIVE SnakeCase(_)
SnakeCase(words) ==
    IF Len(words) = 1 THEN words[1]
    ELSE words[1] \o "_" \o SnakeCase(Tail(words))

Field(key, value) == {[key |-> key, value |-> value]}

\* a field of type Option<T> under skip_serializing_if = "Option::is_none":
\* written, with the encoding of its value, when the option is present
OptField(key, present, value) ==
    IF present THEN Field(key, value) ELSE {}

StringArray(xs) == JArr([i \in 1..Len(xs) |-> JStr(xs[i])])

\* Serialize for AudioConfig
EncodeAudioConfig(a) ==
    JObj(OptField("input_encoding", a.input_encoding.some,
                  JStr(SnakeCase(a.input_encoding.val)))
         \cup OptField("input_sample_rate", a.input_sample_rate.some,
                       JNum(a.input_sample_rate.val))
         \cup OptField("output_encoding", a.output_encoding.some,
                       JStr(SnakeCase(a.output_encoding.val)))
         \cup OptField("output_sample_rate", a.output_sample_rate.some,
                       JNum(a.output_sample_rate.val))
         \cup OptField("output_format", a.output_format.some,
                       JStr(SnakeCase(a.output_format.val))))

\* Serialize for Context: context_type is written as `type`
EncodeContext(c) ==
    JObj(Field("type", JStr(SnakeCase(c.context_type))) \cup Field("text", JStr(c.text)))

\* Serialize for BuiltinTool
EncodeBuiltinTool(t) ==
    JObj(Field("name", JStr(t.name)) \cup OptField("config", t.config.some, t.config.val))

\* Serialize for HashMap<String, String>
EncodeMap(entries) == JObj({[key |-> e.key, value |-> JStr(e.value)] : e \in entries})

\* Serialize for SessionSettings
EncodeSessionSettings(st) ==
    JObj(OptField("audio", st.audio.some, EncodeAudioConfig(st.audio.val))
         \cup OptField("system_prompt", st.system_prompt.some, JStr(st.system_prompt.val))
         \cup OptField("context", st.context.some, EncodeContext(st.context.val))
         \cup OptField("variables", st.variables.some, EncodeMap(st.variables.val))
         \cup OptField("tools", st.tools.some, StringArray(st.tools.val))
         \cup OptField("builtin_tools", st.builtin_tools.some,
                       JArr([i \in 1..Len(st.builtin_tools.val) |->
                                EncodeBuiltinTool(st.builtin_tools.val[i])])))

\* Serialize for ClientMessage: #[serde(tag = "type", rename_all =
\* "snake_case")]; a JSON object is the set of its members
EncodeClientMessage(m) ==
    JObj(Field("type", JStr(SnakeCase(m.variant))) \cup
         CASE m.variant = <<"session", "settings">> ->
                  Field("settings", EncodeSessionSettings(m.settings))
           [] m.variant = <<"audio", "input">> -> Field("data", JStr(m.data))
           [] m.variant \in {<<"user", "input">>, <<"assistant", "input">>} ->
                  Field("text", JStr(m.text))
           [] m.variant = <<"tool", "response">> ->
                  Field("tool_call_id", JStr(m.tool_call_id))
                  \cup Field("content", JStr(m.content))
                  \cup OptField("tool_name", m.tool_name.some, JStr(m.tool_name.val))
           [] m.variant = <<"tool", "error">> ->
                  Field("tool_call_id", JStr(m.tool_call_id))
                  \cup Field("error", JStr(m.error))
                  \cup OptField("code", m.code.some, JStr(m.code.val))
                  \cup OptField("tool_name", m.tool_name.some, JStr(m.tool_name.val))
           [] OTHER -> {})

HasMember(o, key) == \E f \in o.obj : f.key = key
Member(o, key) == (CHOOSE f \in o.obj : f.key = key).value

\* the kind of a JSON value
KindOfValue(v) ==
    IF "str" \in DOMAIN v THEN "string"
    ELSE IF "num" \in DOMAIN v THEN "number"
    ELSE IF "arr" \in DOMAIN v THEN "array" ELSE "object"

\* the members of a JSON object other than `type`, one after the other
RECURSIVE MembersOf(_)
MembersOf(fs) ==
    IF fs = {} THEN <<>>
    ELSE LET f == CHOOSE g \in fs : TRUE
         IN  IF f.key = "type"
             THEN MembersOf(fs \ {f})
             ELSE <<Val(f.key, KindOfValue(f.value))>> \o MembersOf(fs \ {f})

\* a JSON object as the text payload receive() hands to the decoder
PayloadOf(o) ==
    [form |-> "object",
     tag |-> IF HasMember(o, "type") THEN Some(Member(o, "type").str) ELSE None,
     others |-> MembersOf(o.obj)]

\* the message types of chat.rs and the serde traits they derive
SerdeTraits ==
    [ClientMessage |-> {"Serialize"}, ServerMessage |-> {"Deserialize"}]

\* serde_json::from_str::<T> on the frame o, T a message type: there is
\* none for a type without Deserialize, and ServerMessage is the one type
\* that has it
FromStr(T, o) ==
    IF "Deserialize" \notin SerdeTraits[T] THEN None
    ELSE Some(DecodeServerMessage(PayloadOf(o)))

CInit ==
    /\ client_max_retries = DefaultMaxRetries
    /\ opt_max_retries = None
    /\ upc = "idle"
    /\ attempts = 0
    /\ elapsed = 0
    /\ current_interval = InitialInterval
    /\ last_outcome = NoVal
    /\ earlier_5xx = TRUE
    /\ drawn = None
    /\ delay = 0
    /\ exec_result = NoVal
    /\ result = NoVal
    /\ NoSession
    /\ NoScript
    /\ NoCalls
    /\ message \in ClientMessages
    /\ json = NoVal
    /\ decoded = NoVal
    /\ NoRetryLoop
    /\ NoLate

\* send_message: serde_json::to_string(&message)
Encode ==
    /\ json = NoVal
    /\ json' = EncodeClientMessage(message)
    /\ UNCHANGED <<message, decoded, uvars, dvars, svars, tvars, rvars, zvars>>

\* the frame is decoded as a message of type T, as far as the crate can
DecodeAs(T) ==
    /\ json # NoVal
    /\ decoded = NoVal
    /\ decoded' = [type |-> T, value |-> FromStr(T, json)]
    /\ UNCHANGED <<message, json, uvars, dvars, svars, tvars, rvars, zvars>>

\* the next message is handed to send_message
NextMessage(m) ==
    /\ decoded # NoVal
    /\ message' = m
    /\ json' = NoVal
    /\ decoded' = NoVal
    /\ UNCHANGED <<uvars, dvars, svars, tvars, rvars, zvars>>

CNext ==
    \/ Encode
    \/ \E T \in DOMAIN SerdeTraits : DecodeAs(T)
    \/ \E m \in ClientMessages : NextMessage(m)

SpecCodec == CInit /\ [][CNext]_vars

(***************************************************************************)
(* core/retry.rs: is_retryable_error and retry_with_backoff                *)
(***************************************************************************)
\* values of Error; an Http error holds a reqwest::Error, of which the
\* classifier looks at is_timeout(), is_connect() and status()
RetryErrors ==
    [kind : {"Http"}, cause : {"connect", "timeout", "other"}, status : {None}]
    \cup [kind : {"Http"}, cause : {"status"}, status : {Some(404), Some(429), Some(500)}]
    \cup [kind : {"RateLimit"}, retry_after : RetryAfterValues]
    \cup [kind : {"Timeout"}]
    \cup [kind : {"WebSocket"},
          cause : {"ConnectionClosed", "AlreadyClosed", "Io", "Protocol"}]
    \cup [kind : {"Api"}, status : {400, 429, 500}]
    \cup [kind : {"Auth", "Config", "Validation", "Json", "Other"}]

\* is_retryable_error
is_retryable_error(error) ==
    CASE error.kind = "Http" ->
            \/ error.cause = "timeout"
            \/ error.cause = "connect"
            \/ (error.status.some /\ (error.status.val >= 500 \/ error.status.val = 429))
      [] error.kind = "RateLimit" -> TRUE
      [] error.kind = "Timeout" -> TRUE
      [] error.kind = "WebSocket" ->
            error.cause \in {"ConnectionClosed", "AlreadyClosed", "Io"}
      [] OTHER -> FALSE

\* get_retry_after, had it found no hint in any error
get_retry_after_ignored(error) == None

\* get_retry_after, as a delay
get_retry_after(error) ==
    IF error.kind = "RateLimit" /\ error.retry_after.some
    THEN Some(error.retry_after.val * 1000000)
    ELSE None

\* increment_current_interval of the backoff create_backoff builds
RetryIncrementInterval(interval) ==
    IF interval * RetryMultiplier >= RetryMaxBackoff
    THEN RetryMaxBackoff
    ELSE interval * RetryMultiplier

\* the loop's test, had it allowed one retry more
GivesUp_late(n, max_retries, error) ==
    n > max_retries \/ ~is_retryable_error(error)

\* retries >= config.max_retries || !is_retryable_error(&error)
GivesUp(n, max_retries, error) ==
    n >= max_retries \/ ~is_retryable_error(error)

RInit ==
    /\ client_max_retries = DefaultMaxRetries
    /\ opt_max_retries = None
    /\ upc = "idle"
    /\ attempts = 0
    /\ elapsed = 0
    /\ current_interval = InitialInterval
    /\ last_outcome = NoVal
    /\ earlier_5xx = TRUE
    /\ drawn = None
    /\ delay = 0
    /\ exec_result = NoVal
    /\ result = NoVal
    /\ NoSession
    /\ NoScript
    /\ NoCalls
    /\ NoMessage
    /\ NoRetryLoop
    /\ NoLate

\* retry_with_backoff is entered with a config of the given max_retries
StartRetry(n) ==
    /\ rpc = "idle"
    /\ r_max_retries' = n
    /\ rpc' = "calling"
    /\ retries' = 0
    /\ invocations' = 0
    /\ r_interval' = RetryInitialBackoff
    /\ r_delay' = 0
    /\ r_error' = NoVal
    /\ r_result' = NoVal
    /\ UNCHANGED <<classified, uvars, dvars, svars, tvars, cvars, zvars>>

\* operation().await returns Ok
InvokeOk ==
    /\ rpc = "calling"
    /\ invocations' = invocations + 1
    /\ rpc' = "done"
    /\ r_result' = Ok("result")
    /\ UNCHANGED <<r_max_retries, retries, r_interval, r_delay, r_error, classified,
                   uvars, dvars, svars, tvars, cvars, zvars>>

\* operation().await returns Err(e); r is the jitter draw of next_backoff
InvokeErr(e, r) ==
    /\ rpc = "calling"
    /\ invocations' = invocations + 1
    /\ r_error' = e
    /\ IF GivesUp(retries, r_max_retries, e)
       THEN /\ rpc' = "done"
            /\ r_result' = Err(e)
            /\ UNCHANGED <<r_interval, r_delay>>
       ELSE /\ rpc' = "waiting"
            /\ IF get_retry_after(e).some
               THEN /\ r_delay' = get_retry_after(e).val
                    /\ UNCHANGED r_interval
               ELSE /\ r_delay' = RandomizedInterval(r_interval, r)
                    /\ r_interval' = RetryIncrementInterval(r_interval)
            /\ UNCHANGED r_result
    /\ UNCHANGED <<r_max_retries, retries, classified, uvars, dvars, svars, tvars, cvars, zvars>>

\* tokio::time::sleep(delay) is over: retries += 1 and the loop goes round
RetryWake ==
    /\ rpc = "waiting"
    /\ rpc' = "calling"
    /\ retries' = retries + 1
    /\ UNCHANGED <<r_max_retries, invocations, r_interval, r_delay, r_error, r_result,
                   classified, uvars, dvars, svars, tvars, cvars, zvars>>

\* the caller has the result
RetryFinish ==
    /\ rpc = "done"
    /\ rpc' = "idle"
    /\ UNCHANGED <<r_max_retries, retries, invocations, r_interval, r_delay, r_error,
                   r_result, classified, uvars, dvars, svars, tvars, cvars, zvars>>

\* is_retryable_error is applied to an error
Classify(e) ==
    /\ rpc = "idle"
    /\ classified' = [error |-> e, verdict |-> is_retryable_error(e)]
    /\ UNCHANGED <<r_max_retries, rpc, retries, invocations, r_interval, r_delay,
                   r_error, r_result, uvars, dvars, svars, tvars, cvars, zvars>>

RNext ==
    \/ \E n \in RetryChoices : StartRetry(n)
    \/ InvokeOk
    \/ \E e \in RetryErrors, r \in JitterDraws : InvokeErr(e, r)
    \/ RetryWake
    \/ RetryFinish
    \/ \E e \in RetryErrors : Classify(e)

SpecRetry == RInit /\ [][RNext]_vars

(***************************************************************************)
(* RetryConfig::calculate_backoff (core/retry.rs)                          *)
(***************************************************************************)
\* execute_request has not been entered
NoCallInProgress ==
    /\ opt_max_retries = None
    /\ upc = "idle"
    /\ attempts = 0
    /\ elapsed = 0
    /\ current_interval = InitialInterval
    /\ last_outcome = NoVal
    /\ earlier_5xx = TRUE
    /\ drawn = None
    /\ delay = 0
    /\ exec_result = NoVal
    /\ result = NoVal

\* the unary engine of a client built by HttpClient::new, with no call in progress
NoRequest ==
    /\ client_max_retries = DefaultMaxRetries
    /\ NoCallInProgress

\* the configurations calculate_backoff is called on
RetryConfigs ==
    [max_retries : {RetryDefaultMaxRetries},
     initial_backoff : {10000, RetryInitialBackoff},
     max_backoff : {1000000, RetryMaxBackoff},
     backoff_multiplier : {RetryMultiplier, 3}]

AttemptIndexes == 0..MaxAttemptIndex

\* create_backoff: the ExponentialBackoff built from the config, with no
\* max_elapsed_time, so that next_backoff never returns None
create_backoff(config) ==
    [current_interval |-> config.initial_backoff,
     max_interval |-> config.max_backoff,
     multiplier |-> config.backoff_multiplier]

\* increment_current_interval of that backoff
BackoffIncrement(b) ==
    IF b.current_interval * b.multiplier >= b.max_interval
    THEN b.max_interval
    ELSE b.current_interval * b.multiplier

\* the backoff after n calls of next_backoff
RECURSIVE BackoffAfter(_, _)
BackoffAfter(b, n) ==
    IF n = 0
    THEN b
    ELSE LET prev == BackoffAfter(b, n - 1)
         IN  [prev EXCEPT !.current_interval = BackoffIncrement(prev)]

\* calculate_backoff, had its loop run 0..=retry_attempt
calculate_backoff_one_more(config, retry_attempt, r) ==
    RandomizedInterval(
        BackoffAfter(create_backoff(config), retry_attempt + 1).current_interval, r)

\* calculate_backoff: retry_attempt calls of next_backoff are discarded and
\* the next one, of jitter draw r, is returned
calculate_backoff(config, retry_attempt, r) ==
    RandomizedInterval(
        BackoffAfter(create_backoff(config), retry_attempt).current_interval, r)

BInit ==
    /\ NoWait
    /\ NoRawCall
    /\ NoRequest
    /\ NoSession
    /\ NoScript
    /\ NoCalls
    /\ NoMessage
    /\ NoRetryLoop
    /\ b_config \in RetryConfigs
    /\ computed = NoVal
    /\ NoClient
    /\ NoTraffic

\* config.calculate_backoff(n) is called
CalculateBackoff(n, r) ==
    /\ computed' = [attempt |-> n, draw |-> r,
                    delay |-> calculate_backoff(b_config, n, r)]
    /\ UNCHANGED <<b_config, oldvars, avars, kvars, yvars, pvars>>

\* another RetryConfig is built
Configure(config) ==
    /\ config # b_config
    /\ b_config' = config
    /\ computed' = NoVal
    /\ UNCHANGED <<oldvars, avars, kvars, yvars, pvars>>

BNext ==
    \/ \E n \in AttemptIndexes, r \in JitterDraws : CalculateBackoff(n, r)
    \/ \E config \in RetryConfigs : Configure(config)

SpecBackoff == BInit /\ [][BNext]_vars

(***************************************************************************)
(* Auth and AuthToken (core/auth.rs)                                       *)
(***************************************************************************)
Clock == 0..MaxClock

\* the credentials a client is built with
Tokens == {AccessToken("tok", e, c) : e \in 0..3, c \in 0..2}
Credentials == {ApiKey("key")} \cup Tokens

\* AuthToken::is_expired, had it compared with >
token_is_expired_strict(token, t) ==
    t > token.created_at + token.expires_in

\* AuthToken::is_expired at the time t
token_is_expired(token, t) ==
    LET expiry == token.created_at + token.expires_in
    IN  t >= expiry

\* Auth::is_expired at the time t
is_expired(auth, t) ==
    IF auth.kind = "ApiKey" THEN FALSE ELSE token_is_expired(auth, t)

\* Auth::header_value
header_value(auth) ==
    IF auth.kind = "ApiKey"
    THEN Some(<<"X-Hume-Api-Key", auth.key>>)
    ELSE Some(<<"Authorization", "Bearer " \o auth.access_token>>)

\* Auth::query_param
query_param(auth) ==
    IF auth.kind = "ApiKey"
    THEN <<"api_key", auth.key>>
    ELSE <<"access_token", auth.access_token>>

\* a client with the given credential
ClientWith(auth) ==
    [base_url |-> "https://api.hume.ai", auth |-> auth,
     default_timeout |-> DefaultTimeout, max_retries |-> DefaultMaxRetries]

AInit ==
    /\ NoWait
    /\ NoRawCall
    /\ NoRequest
    /\ NoSession
    /\ NoScript
    /\ NoCalls
    /\ NoMessage
    /\ NoRetryLoop
    /\ NoCalculation
    /\ cl \in {ClientWith(Some(a)) : a \in Credentials}
    /\ utc_now = 0
    /\ expiry_seen = NoVal
    /\ NoTraffic

\* the clock advances by one second
Tick ==
    /\ utc_now < MaxClock
    /\ utc_now' = utc_now + 1
    /\ UNCHANGED <<cl, expiry_seen, oldvars, bvars, kvars, yvars, pvars>>

\* auth.is_expired() is called
IsExpired ==
    /\ cl.auth.some
    /\ expiry_seen' = [at |-> utc_now, expired |-> is_expired(cl.auth.val, utc_now)]
    /\ UNCHANGED <<cl, utc_now, oldvars, bvars, kvars, yvars, pvars>>

ANext ==
    \/ Tick
    \/ IsExpired

SpecAuth == AInit /\ [][ANext]_vars

(***************************************************************************)
(* One client, several calls in flight (core/http.rs, evi/chat.rs)         *)
(***************************************************************************)
\* the credentials of the client: none, an API key, a token that expires at 1 s
ClientCredentials == {None, Some(ApiKey("key")), Some(AccessToken("tok", 1, 0))}

\* what the server does to one attempt of these calls
ClientOutcomes ==
    {o \in Responses : o.status \in {200, 500} /\ o.decodable /\ o.took = 0}

\* rand::random() of these calls: the longest sleep next_backoff can draw
ClientDraws == {2}

\* the client is used before and after the token has expired
ClientTimes == {0, 2}

\* what the setters of the client are given
SetCredentials == {ApiKey("other"), AccessToken("tok", 1, 0)}
ClientTimeouts == {DefaultTimeout, 1}
ClientRetries == {DefaultMaxRetries, 0}

\* the credential a request or a handshake is built with, had an expired
\* one been left out
RequestCredential_unless_expired(client, t) ==
    IF client.auth.some /\ is_expired(client.auth.val, t) THEN None ELSE client.auth

\* the credential a request or a handshake is built with at the time t:
\* &self.auth, as it is
RequestCredential(client, t) == client.auth

\* the backoff of a new call, had the client kept one for all its calls
NewBackoff_kept(all) ==
    IF \E d \in CallIds : all[d].pc # "idle"
    THEN LET d == CHOOSE d \in CallIds : all[d].pc # "idle"
         IN  [elapsed |-> all[d].elapsed, current_interval |-> all[d].current_interval]
    ELSE [elapsed |-> 0, current_interval |-> InitialInterval]

\* the backoff execute_request builds for the call it is entered for
NewBackoff(all) ==
    [elapsed |-> 0, current_interval |-> InitialInterval]

KInit ==
    /\ NoWait
    /\ NoRawCall
    /\ NoRequest
    /\ NoSession
    /\ NoScript
    /\ NoCalls
    /\ NoMessage
    /\ NoRetryLoop
    /\ NoCalculation
    /\ cl \in {ClientWith(a) : a \in ClientCredentials}
    /\ utc_now \in ClientTimes
    /\ expiry_seen = NoVal
    /\ NoTraffic

\* execute_request is entered for the call c
Begin(c) ==
    LET b == NewBackoff(inflight)
    IN  /\ inflight[c].pc = "idle"
        /\ inflight' = [inflight EXCEPT ![c] =
                        [IdleCall EXCEPT !.pc = "sending", !.elapsed = b.elapsed,
                                         !.current_interval = b.current_interval]]
        /\ UNCHANGED <<handshake, avars, oldvars, bvars, yvars, pvars>>

\* one run of the closure of the call c, and retry()'s decision on it
Step(c, o, r) ==
    LET k    == inflight[c]
        cred == RequestCredential(cl, utc_now)
        sent == [k EXCEPT !.attempts = k.attempts + 1,
                          !.header = IF cred.some THEN header_value(cred.val) ELSE None]
        res  == AttemptResult(o, EffectiveMaxRetries(None, cl.max_retries))
        nb   == NextBackoff(k.elapsed, k.current_interval, r)
    IN  /\ k.pc = "sending"
        /\ k.attempts < MaxCallAttempts
        /\ inflight' = [inflight EXCEPT ![c] =
              CASE res.kind = "ok" ->
                     [sent EXCEPT !.pc = "done",
                                  !.result = RequestResult([kind |-> "Ok", resp |-> res.resp])]
                [] res.kind = "permanent" ->
                     [sent EXCEPT !.pc = "done", !.last_error = res.err,
                                  !.result = [kind |-> "Err", err |-> res.err]]
                [] res.kind = "transient" ->
                     IF nb.some
                     THEN [sent EXCEPT !.pc = "sleeping", !.last_error = res.err,
                                       !.delay = nb.val,
                                       !.current_interval =
                                           IntervalAfterBackoff(k.elapsed, k.current_interval)]
                     ELSE [sent EXCEPT !.pc = "done", !.last_error = res.err,
                                       !.result = [kind |-> "Err", err |-> res.err]]]
        /\ UNCHANGED <<handshake, avars, oldvars, bvars, yvars, pvars>>

\* the sleep of the call c is over
WakeCall(c) ==
    /\ inflight[c].pc = "sleeping"
    /\ inflight' = [inflight EXCEPT ![c].pc = "sending",
                              ![c].elapsed = inflight[c].elapsed + inflight[c].delay]
    /\ UNCHANGED <<handshake, avars, oldvars, bvars, yvars, pvars>>

\* the call c has returned to its caller
End(c) ==
    /\ inflight[c].pc = "done"
    /\ inflight' = [inflight EXCEPT ![c] = IdleCall]
    /\ UNCHANGED <<handshake, avars, oldvars, bvars, yvars, pvars>>

\* ChatClient::connect: the credential goes into the URL of the handshake
ConnectChat(ok) ==
    LET cred == RequestCredential(cl, utc_now)
    IN  /\ handshake' =
              IF ~cred.some
              THEN [param |-> None,
                    result |-> Err([kind |-> "Auth", message |-> "No authentication configured"])]
              ELSE [param |-> Some(query_param(cred.val)),
                    result |-> IF ok THEN Ok("socket") ELSE Err([kind |-> "WebSocket"])]
        /\ UNCHANGED <<inflight, avars, oldvars, bvars, yvars, pvars>>

\* the setters take `&mut self`: none of them runs while a call, which
\* borrows the client for as long as it lasts, is in flight
NoBorrow == \A c \in CallIds : inflight[c].pc = "idle"

\* HttpClient::set_auth
set_auth(auth) ==
    /\ NoBorrow
    /\ cl' = [cl EXCEPT !.auth = Some(auth)]
    /\ UNCHANGED <<utc_now, expiry_seen, kvars, oldvars, bvars, yvars, pvars>>

\* HttpClient::set_default_timeout
set_default_timeout(timeout) ==
    /\ NoBorrow
    /\ cl' = [cl EXCEPT !.default_timeout = timeout]
    /\ UNCHANGED <<utc_now, expiry_seen, kvars, oldvars, bvars, yvars, pvars>>

\* HttpClient::set_max_retries
set_max_retries(max_retries) ==
    /\ NoBorrow
    /\ cl' = [cl EXCEPT !.max_retries = max_retries]
    /\ UNCHANGED <<utc_now, expiry_seen, kvars, oldvars, bvars, yvars, pvars>>

KNext ==
    \/ \E a \in SetCredentials : set_auth(a)
    \/ \E t \in ClientTimeouts : set_default_timeout(t)
    \/ \E n \in ClientRetries : set_max_retries(n)
    \/ \E c \in CallIds : Begin(c)
    \/ \E c \in CallIds, o \in ClientOutcomes, r \in ClientDraws : Step(c, o, r)
    \/ \E c \in CallIds : WakeCall(c)
    \/ \E c \in CallIds : End(c)
    \/ \E ok \in BOOLEAN : ConnectChat(ok)

SpecClient == KInit /\ [][KNext]_vars

(***************************************************************************)
(* The unary engine against a server that fails transiently forever        *)
(***************************************************************************)
\* every attempt ends at once in a 5xx, a 429 or a refused connection
TransientOutcomes ==
    {o \in Responses : o.status \in {500, TooManyRequests} /\ o.took = 0}
    \cup {o \in SendFailures : o.cause = "connect"}

\* the shortest and the longest sleep next_backoff can draw
OutageDraws == {0, 2}

OInit ==
    /\ client_max_retries \in RetryChoices \ {0}
    /\ NoCallInProgress
    /\ NoSession
    /\ NoExtras

ONext ==
    \/ StartCall(None)
    \/ \E o \in TransientOutcomes, r \in OutageDraws : Try(o, r)
    \/ Wake
    \/ Finish
    \/ \E n \in RetryChoices \ {0} : SetMaxRetries(n)

\* the runtime drives the future of the call: a pending attempt is answered
\* and a sleep that was scheduled ends
SpecOutage == OInit /\ [][ONext]_vars /\ WF_vars(ONext)

(***************************************************************************)
(* HttpClient::request_bytes and request_stream (core/http.rs)             *)
(***************************************************************************)
RawEntries == {"request_bytes", "request_stream"}

\* what the server does to one attempt of these calls
RawOutcomes ==
    {o \in Responses : o.took = 0} \cup {o \in SendFailures : o.cause # "other"}

\* response.bytes() and response.bytes_stream(): the body of the response;
\* a stream is handed over unread and yields the error of a failed read as
\* its item
BodyOf(entry, resp, readable) ==
    IF entry = "request_bytes"
    THEN [of |-> resp.status, as |-> "Bytes", intact |-> TRUE]
    ELSE [of |-> resp.status, as |-> "Stream", intact |-> readable]

\* Error::from(reqwest::Error) of a body that could not be read
BodyReadError == [kind |-> "Err", err |-> [kind |-> "Http", cause |-> "body"]]

\* request_bytes and request_stream, had they looked at the status as
\* request() does
RawResult_checked(entry, exec, readable) ==
    IF exec.kind = "Err"
    THEN exec
    ELSE IF IsSuccess(exec.resp.status)
         THEN IF entry = "request_bytes" /\ ~readable
              THEN BodyReadError
              ELSE [kind |-> "Ok", body |-> BodyOf(entry, exec.resp, readable)]
         ELSE handle_error_response(exec.resp)

\* request_bytes and request_stream, after execute_request returned: `?` on
\* its result, then the body; request_bytes reads it to the end, `?` on the
\* read
RawResult(entry, exec, readable) ==
    IF exec.kind = "Err"
    THEN exec
    ELSE IF entry = "request_bytes" /\ ~readable
         THEN BodyReadError
         ELSE [kind |-> "Ok", body |-> BodyOf(entry, exec.resp, readable)]

YInit ==
    /\ client_max_retries \in {0, DefaultMaxRetries}
    /\ NoCallInProgress
    /\ NoSession
    /\ NoExtras

\* request_bytes or request_stream returns what it makes of the result of
\* execute_request; the connection may fail while the body is read
ReturnRaw(entry, readable) ==
    /\ upc = "done"
    /\ upc' = "idle"
    /\ raw_result' = [entry |-> entry, exec |-> exec_result, readable |-> readable,
                      value |-> RawResult(entry, exec_result, readable)]
    /\ UNCHANGED <<client_max_retries, opt_max_retries, attempts, elapsed,
                   current_interval, last_outcome, earlier_5xx, drawn, delay, exec_result,
                   result, dvars, svars, tvars, cvars, rvars, bvars, avars, kvars, pvars>>

YNext ==
    \/ StartCall(None)
    \/ \E o \in RawOutcomes, r \in JitterDraws : Attempt(o, r)
    \/ Wake
    \/ \E entry \in RawEntries, readable \in BOOLEAN : ReturnRaw(entry, readable)
    \/ \E n \in {0, DefaultMaxRetries} : SetMaxRetries(n)

SpecBytes == YInit /\ [][YNext]_vars

(***************************************************************************)
(* receive() and the frames that are neither text nor close                *)
(***************************************************************************)
\* Message::Binary, Message::Ping and Message::Pong
OtherKinds == {"Binary", "Ping", "Pong"}

\* the frames of a server that keeps to the protocol
InboundFrames ==
    {TextFrame(p) : p \in TextPayloads \cup ArrayPayloads \cup OddPayloads}
    \cup {[kind |-> k] : k \in OtherKinds \cup {"Close"}}

\* the server writes a frame of any kind
ServerWrites(f) ==
    /\ emitted < MaxInbound
    /\ Emit(f)
    /\ UNCHANGED svars

FNext ==
    \/ \E ok \in BOOLEAN : Connect(ok)
    \/ Receive
    \/ ReceiveWaits
    \/ \E f \in InboundFrames : ServerWrites(f)
    \/ ServerEOF

SpecFrames == DInit /\ [][FNext]_vars

(***************************************************************************)
(* BatchClient::wait_for_job_completion (expression_measurement/batch.rs)  *)
(***************************************************************************)
\* StateInference
JobStates == {"Queued", "InProgress", "Completed", "Failed"}
IsTerminalState(s) == s \in {"Completed", "Failed"}

\* what get_job returns: the job, or an error of the unary engine
PollOutcomes ==
    {Ok([state |-> s]) : s \in JobStates}
    \cup {Err([kind |-> "Timeout"]), Err([kind |-> "Api", status |-> 404])}

PollIntervals == {1, 2}
MaxWaits == {None, Some(0), Some(2)}
PollTimes == {0, 1}

\* if let Some(max_wait) = max_wait { if start.elapsed() > max_wait
WaitExpired(max_wait, el) == max_wait.some /\ el > max_wait.val

PInit ==
    /\ client_max_retries = DefaultMaxRetries
    /\ NoCallInProgress
    /\ NoSession
    /\ NoScript
    /\ NoCalls
    /\ NoMessage
    /\ NoRetryLoop
    /\ NoCalculation
    /\ NoClient
    /\ NoTraffic
    /\ NoRawCall
    /\ NoWait

\* wait_for_job_completion is entered: start = Instant::now()
StartWait(interval, max_wait) ==
    /\ w_pc = "idle"
    /\ w_pc' = "polling"
    /\ w_poll_interval' = interval
    /\ w_max_wait' = max_wait
    /\ w_elapsed' = 0
    /\ w_polls' = 0
    /\ w_job' = NoVal
    /\ w_result' = NoVal
    /\ UNCHANGED <<oldvars, bvars, avars, kvars, yvars>>

\* one turn of the loop: get_job, which takes `took`, and the match on the
\* state of the job
PollJob(got, took) ==
    LET el == w_elapsed + took
    IN  /\ w_pc = "polling"
        /\ w_polls < MaxPolls
        /\ w_polls' = w_polls + 1
        /\ w_elapsed' = el
        /\ w_job' = got
        /\ IF got.kind = "Err"
           THEN /\ w_pc' = "done"
                /\ w_result' = got
           ELSE IF IsTerminalState(got.val.state)
                THEN /\ w_pc' = "done"
                     /\ w_result' = Ok(got.val)
                ELSE IF WaitExpired(w_max_wait, el)
                     THEN /\ w_pc' = "done"
                          /\ w_result' = Err([kind |-> "Timeout"])
                     ELSE /\ w_pc' = "sleeping"
                          /\ UNCHANGED w_result
        /\ UNCHANGED <<w_poll_interval, w_max_wait, oldvars, bvars, avars, kvars, yvars>>

\* tokio::time::sleep(poll_interval) is over
SleepOver ==
    /\ w_pc = "sleeping"
    /\ w_pc' = "polling"
    /\ w_elapsed' = w_elapsed + w_poll_interval
    /\ UNCHANGED <<w_poll_interval, w_max_wait, w_polls, w_job, w_result,
                   oldvars, bvars, avars, kvars, yvars>>

\* the caller has the result of the wait
WaitReturned ==
    /\ w_pc = "done"
    /\ w_pc' = "idle"
    /\ UNCHANGED <<w_poll_interval, w_max_wait, w_elapsed, w_polls, w_job, w_result,
                   oldvars, bvars, avars, kvars, yvars>>

PNext ==
    \/ \E interval \in PollIntervals, max_wait \in MaxWaits : StartWait(interval, max_wait)
    \/ \E got \in PollOutcomes, took \in PollTimes : PollJob(got, took)
    \/ SleepOver
    \/ WaitReturned

SpecPoll == PInit /\ [][PNext]_vars

(***************************************************************************)
(* Duplex session: properties                                              *)
(***************************************************************************)
Last(q) == q[Len(q)]

SendStep == sends' = sends + 1
ReceiveStep == Len(returned') = Len(returned) + 1

IsMessage(r) == r.kind = "Ok" /\ r.val.some
IsDecodedMessage(r) == IsMessage(r) /\ r.val.val # Unknown

\* the session state machine of the design, read off the handle and what
\* the caller has observed
SessionState ==
    CASE handle \in {"connecting", "pushing"} -> "Connecting"
      [] observed \in {"failed_handshake", "failed_read", "failed_write"} -> "Failed"
      [] observed = "closed" -> "Closed"
      [] OTHER -> "Open"

Terminal == SessionState \in {"Closed", "Failed"}

CloseStep == last_close' # last_close

\* C6 as stated: after close() a send() on the session can be made, and it
\* returns an error without writing a frame.
C6_Original ==
    (last_close # NoVal /\ sends < MaxSends) =>
        ENABLED (\E k \in ClientKinds :
                    Send(k) /\ last_send'.kind = "Err" /\ wire' = wire)

\* C6 amended: close() takes the handle by value, so after close() no
\* send() and no receive() is made on the session and nothing is written
\* once close() has returned; a send() made once the connection is no
\* longer active (the server's close frame or EOF was read) returns an
\* error and writes no frame.
C6_NoSendOnClosedSession ==
    [][ /\ last_close # NoVal =>
              /\ sends' = sends /\ wire' = wire /\ last_send' = last_send
              /\ returned' = returned /\ last_close' = last_close
        /\ (SendStep /\ ws_state # "Active") =>
              /\ last_send'.kind = "Err"
              /\ last_send'.err.cause \in {"SendAfterClosing", "AlreadyClosed"}
              /\ wire' = wire ]_vars

\* close() has returned Ok after a send: the close frame is the last frame
C6_Witness ==
    /\ handle = "consumed" /\ last_close = Ok("unit")
    /\ last_send = Ok("unit")
    /\ Len(wire) = 2 /\ wire[2] = CloseFrame

IsReadable(ev) == ev.src = "frame" /\ CanRead(ev.st)
IsTextEvent(ev) == IsReadable(ev) /\ ev.frame.kind = "Text"
DecodeFails(ev) == IsTextEvent(ev) /\ DecodeServerMessage(ev.frame.payload).kind = "Err"

ExpectedReturn(ev) ==
    CASE ev.src \in {"ended", "terminated"} -> Ok(None)
      [] ev.src = "eof" ->
            IF ev.st \in {"ClosedByPeer", "CloseAcknowledged"}
            THEN Ok(None)
            ELSE WsErr("ResetWithoutClosingHandshake")
      [] ev.src = "reset" -> IF CanRead(ev.st) THEN WsErr("Io") ELSE Ok(None)
      [] ev.src = "broken" -> WsErr("Io")
      [] ev.src = "frame" ->
            IF ~CanRead(ev.st) THEN WsErr("ReceivedAfterClosing")
            ELSE CASE ev.frame.kind = "Close" -> Ok(None)
                   [] ev.frame.kind = "Invalid" -> WsErr("Protocol")
                   [] ev.frame.kind = "Text" ->
                        IF IsTagged(ev.frame.payload) /\ Accepts(ev.frame.payload)
                        THEN IF ev.frame.payload.tag.val \notin KnownServerTags
                             THEN Ok(Some(Unknown))
                             ELSE Ok(Some([variant |-> ev.frame.payload.tag.val]))
                        ELSE Err([kind |-> "Json"])
                   [] OTHER -> Ok(Some(Unknown))

C8_DecodeFailureIsIsolated ==
    [][ (ReceiveStep /\ ~ended /\ DecodeFails(NextEvent)) =>
            /\ Last(returned') = Err([kind |-> "Json"])
            /\ inbound' = Tail(inbound)
            /\ ws_state' = ws_state /\ ended' = ended /\ net' = net
            /\ handle' = handle /\ observed' = observed
            /\ wire' = wire \o Owed(additional_send) /\ sends' = sends ]_vars

\* after a frame that failed to decode, the next frame was delivered and a
\* send was written
C8_Witness ==
    /\ Len(returned) >= 2
    /\ DecodeFails(consumed[1]) /\ returned[1].kind = "Err"
    /\ IsTextEvent(consumed[2]) /\ IsMessage(returned[2])
    /\ returned[2].val.val = [variant |-> "assistant_message"]
    /\ last_send = Ok("unit") /\ Len(wire) = 1

HasUnknownTag(ev) ==
    /\ IsTextEvent(ev)
    /\ ev.frame.payload.form = "object"
    /\ ev.frame.payload.tag.some
    /\ ev.frame.payload.tag.val \notin KnownServerTags

\* C9: a text frame that is a JSON object whose `type` is none of the known
\* server message kinds is returned by receive() as Ok(Some(Unknown)).
C9_UnknownTagDecodesToUnknown ==
    \A i \in 1..Len(returned) :
        HasUnknownTag(consumed[i]) => returned[i] = Ok(Some(Unknown))

\* an object of unknown `type` that carries members, one of them twice
C9_Witness ==
    \E i \in 1..Len(returned) :
        /\ HasUnknownTag(consumed[i]) /\ returned[i] = Ok(Some(Unknown))
        /\ Len(consumed[i].frame.payload.others) = 2

\* C10 as stated: Closed and Failed are terminal; in them no send() succeeds
\* or writes a frame and no receive() yields a message.
C10_Original ==
    [][ Terminal =>
            /\ SessionState' = SessionState
            /\ SendStep => (last_send'.kind = "Err" /\ wire' = wire)
            /\ ReceiveStep => ~IsDecodedMessage(Last(returned')) ]_vars

\* C10 amended: Closed and Failed are terminal and no send() succeeds or
\* writes a frame in them; no receive() yields a message once the session
\* was closed with close(), observed the server's close frame or EOF, or
\* met a transport error in receive(). After a transport error met by
\* send(), receive() still yields the messages received before the error.
C10_TerminalStates ==
    [][ Terminal =>
            /\ SessionState' = SessionState
            /\ SendStep => (last_send'.kind = "Err" /\ wire' = wire)
            /\ CloseStep => wire' = wire
            /\ wire' # wire => wire' = Append(wire, CloseFrame)
            /\ (ReceiveStep /\ observed # "failed_write")
                   => ~IsMessage(Last(returned')) ]_vars

\* the server's close frame was read, then a send failed and a receive
\* gave no message
C10_Witness ==
    /\ observed = "closed" /\ handle = "live"
    /\ Len(returned) >= 2 /\ returned[1] = Ok(None)
    /\ consumed[1].src = "frame" /\ consumed[2].src = "frame"
    /\ ~IsMessage(returned[2])
    /\ last_send.kind = "Err"

\* C14 as stated: after close() a second close() on the session can be
\* made, and it is reported as an error.
C14_Original ==
    last_close # NoVal => ENABLED (Close /\ last_close'.kind = "Err")

\* C14 amended: close() takes the handle by value. On an active connection
\* it writes a close frame and returns Ok (an I/O error if the transport is
\* broken); on a connection the peer has already closed or ended it returns
\* an error and writes nothing. Either way the handle is gone afterwards:
\* no second close(), send() or receive() is made on the session.
C14_CloseConsumesTheHandle ==
    [][ /\ CloseStep =>
              /\ handle = "live" /\ handle' = "consumed" /\ last_close = NoVal
              /\ (ws_state = "Active" /\ ~IsDown(net)) =>
                    /\ last_close' = Ok("unit")
                    /\ wire' = Append(wire, CloseFrame) \o Owed(additional_send)
                    /\ ws_state' = "ClosedByUs"
              /\ (ws_state = "Active" /\ IsDown(net)) =>
                    /\ last_close' = WsErr("Io") /\ wire' = wire
              /\ ws_state # "Active" =>
                    /\ last_close'.kind = "Err"
                    /\ last_close'.err.cause \in {"SendAfterClosing", "AlreadyClosed"}
                    /\ wire' = wire
        /\ handle = "consumed" =>
              /\ handle' = "consumed" /\ last_close' = last_close
              /\ wire' = wire /\ ws_state' = ws_state ]_vars

\* close() after the server's close frame was read: an error, no frame
C14_Witness ==
    /\ handle = "consumed"
    /\ last_close = WsErr("SendAfterClosing")
    /\ wire = <<>>
    /\ Len(returned) >= 1 /\ returned[1] = Ok(None)

(***************************************************************************)
(* Built session: properties                                               *)
(***************************************************************************)
\* audio, text and tool answers
UserContent == {"audio_input", "user_input", "tool_response", "tool_error"}

\* the socket has been handed to the caller by ChatSessionBuilder::connect
Returned == handle \in {"live", "consumed"}

\* C11: when session settings were given to ChatSessionBuilder, connect()
\* writes them as the first frame after the handshake and before it hands
\* the socket over: whenever the caller holds the socket the first frame on
\* the wire is the SessionSettings frame, every frame of user content comes
\* after it, and a connect() that failed handed over nothing and wrote
\* nothing.
C11_SettingsAreSentFirst ==
    builder_settings.some =>
        /\ Returned => (Len(wire) >= 1 /\ wire[1] = SettingsFrame)
        /\ wire # <<>> => wire[1] = SettingsFrame
        /\ \A i \in 1..Len(wire) :
              (wire[i].kind = "Text" /\ wire[i].payload.type \in UserContent) => i > 1
        /\ handle = "failed" => (wire = <<>> /\ outbox = <<>>)

\* settings were supplied, and user content was sent on the session
C11_Witness ==
    /\ builder_settings.some /\ handle = "live"
    /\ sends = 2 /\ outbox # <<>>
    /\ Len(wire) = 2 /\ wire[1] = SettingsFrame
    /\ wire[2].payload.type \in UserContent

IsTextFrame(f) == f.kind = "Text"
IsFrameEvent(ev) == ev.src = "frame"

\* the kinds of the messages on the wire, in wire order
WireKinds ==
    [i \in 1..Len(SelectSeq(wire, IsTextFrame)) |->
        SelectSeq(wire, IsTextFrame)[i].payload.type]

\* the messages receive() has returned, in the order it returned them
Messages ==
    [i \in 1..Len(SelectSeq(returned, IsMessage)) |->
        SelectSeq(returned, IsMessage)[i].val.val]

\* the messages the server's script stands for, in the order it emits them
Spoken == [i \in 1..Len(utterance) |-> MessageOf(utterance[i])]

\* the text of the chunks of msgs up to and including the first final one
RECURSIVE TextUpToFinal(_)
TextUpToFinal(msgs) ==
    IF msgs = <<>>
    THEN [text |-> <<>>, final |-> FALSE]
    ELSE IF Head(msgs).is_final
         THEN [text |-> Head(msgs).text, final |-> TRUE]
         ELSE [text |-> Head(msgs).text \o TextUpToFinal(Tail(msgs)).text,
               final |-> TextUpToFinal(Tail(msgs)).final]

\* C12: within one session the messages on the wire are, after the initial
\* settings, the messages of the send() calls that succeeded, in call order
\* (all of them when the last send succeeded); the frames receive() took are
\* the first frames the server emitted, in that order, and the messages it
\* returned are their decodings, none dropped, duplicated or reordered; so
\* once the final chunk was returned, the chunk texts joined in receive
\* order are the utterance up to its final chunk.
C12_OrderIsPreserved ==
    /\ Returned =>
          \E n \in 0..Len(outbox) :
              /\ WireKinds = InitialFrames(builder_settings) \o SubSeq(outbox, 1, n)
              /\ last_send = Ok("unit") => n = Len(outbox)
    /\ \A i \in 1..Len(SelectSeq(consumed, IsFrameEvent)) :
          /\ i <= Len(utterance)
          /\ SelectSeq(consumed, IsFrameEvent)[i].frame = TextFrame(utterance[i])
    /\ Len(Messages) = Len(SelectSeq(consumed, IsFrameEvent))
    /\ Messages = SubSeq(Spoken, 1, Len(Messages))
    /\ TextUpToFinal(Messages).final =>
          TextUpToFinal(Messages).text = TextUpToFinal(Spoken).text

\* Scenario C: after the settings of the builder the application has sent
\* two messages of different kinds, which are on the wire in call order,
\* and has received three chunks, the third final
C12_Witness ==
    /\ handle = "live" /\ sends = 3 /\ last_send = Ok("unit")
    /\ Len(outbox) = 2 /\ outbox[1] # outbox[2]
    /\ WireKinds = <<"session_settings">> \o outbox
    /\ Len(Messages) = 3
    /\ TextUpToFinal(Messages) = [text |-> <<"a", "a", "b">>, final |-> TRUE]

InCall(m) == {t \in Tasks : in_call[t] # NoVal /\ in_call[t].kind = m}

\* the halves of the frames of direction m, in the order they passed
HalvesOf(m) == SelectSeq(io_log, LAMBDA h : h.kind = m)

\* the two halves of every frame are next to each other
Contiguous(log) ==
    \A i \in 1..Len(log) :
        IF i % 2 = 1
        THEN log[i].half = 1
        ELSE log[i].half = 2 /\ log[i].call = log[i - 1].call

\* C13: on one ChatSocket at most one send() and at most one receive() is
\* in progress at any time, so the halves of two outbound frames, and of
\* two inbound frames, are never interleaved.
C13_OneReaderOneWriter ==
    /\ Cardinality(InCall("send")) <= 1
    /\ Cardinality(InCall("receive")) <= 1
    /\ Contiguous(HalvesOf("send"))
    /\ Contiguous(HalvesOf("receive"))

\* two tasks have each written a frame, and one is inside a receive
C13_Witness ==
    /\ Len(HalvesOf("send")) = 4
    /\ HalvesOf("send")[1].task # HalvesOf("send")[3].task
    /\ InCall("receive") # {}

(***************************************************************************)
(* ClientMessage codec: properties                                         *)
(***************************************************************************)
\* the kinds of client message of the protocol, by variant
KindOf(variant) ==
    CASE variant = <<"session", "settings">> -> "session_settings"
      [] variant = <<"audio", "input">> -> "audio_input"
      [] variant = <<"user", "input">> -> "user_input"
      [] variant = <<"assistant", "input">> -> "assistant_input"
      [] variant = <<"tool", "response">> -> "tool_response"
      [] variant = <<"tool", "error">> -> "tool_error"
      [] variant = <<"pause", "assistant">> -> "pause_assistant"
      [] variant = <<"resume", "assistant">> -> "resume_assistant"

\* C15: encoding a ClientMessage gives a frame whose `type` is the
\* snake_case kind of its variant, and decoding that frame as a
\* ClientMessage reproduces an equal value.
C15_Original ==
    /\ json # NoVal =>
          /\ HasMember(json, "type")
          /\ Member(json, "type") = JStr(KindOf(message.variant))
    /\ (decoded # NoVal /\ decoded.type = "ClientMessage") =>
          decoded.value = Some(Ok(message))

(***************************************************************************)
(* core/retry.rs: properties                                               *)
(***************************************************************************)
\* the status a failure carries, if it is one the server reported
StatusOf(error) ==
    IF error.kind = "Api" THEN Some(error.status)
    ELSE IF error.kind = "Http" THEN error.status
    ELSE None

\* the classification table: transient are connection-level failures,
\* timeouts, HTTP 5xx and HTTP 429; everything else is permanent
TransientByTable(error) ==
    \/ error.kind = "Http" /\ error.cause \in {"connect", "timeout"}
    \/ error.kind = "Timeout"
    \/ error.kind = "RateLimit"
    \/ error.kind = "WebSocket"
          /\ error.cause \in {"ConnectionClosed", "AlreadyClosed", "Io"}
    \/ StatusOf(error).some /\ should_retry_status(StatusOf(error).val)

\* C17: is_retryable_error gives the verdict of the classification table
\* for every representation of a failure, and for a failure that carries a
\* status its verdict is that of should_retry_status on the status.
C17_ClassifierFollowsTheTable ==
    classified # NoVal =>
        /\ classified.verdict = TransientByTable(classified.error)
        /\ StatusOf(classified.error).some =>
              classified.verdict = should_retry_status(StatusOf(classified.error).val)

\* C20: retry_with_backoff invokes the operation at most max_retries + 1
\* times; it returns at the invocation that succeeded or that failed with
\* an error that is not retryable, and otherwise after max_retries + 1
\* invocations, with the error of the last one; it goes round again only
\* after a retryable error met with retries left.
C20_InvocationsAreBounded ==
    /\ invocations <= r_max_retries + 1
    /\ rpc = "calling" => (invocations = retries /\ retries <= r_max_retries)
    /\ rpc = "waiting" =>
          /\ invocations = retries + 1 /\ retries < r_max_retries
          /\ is_retryable_error(r_error)
    /\ (rpc \in {"done", "idle"} /\ r_result # NoVal) =>
          /\ invocations = retries + 1
          /\ r_result.kind = "Err" =>
                /\ r_result = Err(r_error)
                /\ is_retryable_error(r_error) => invocations = r_max_retries + 1

\* max_retries = 2 and every invocation fails with a retryable error
C20_Witness ==
    /\ rpc = "done" /\ r_max_retries = 2 /\ invocations = 3
    /\ r_result.kind = "Err" /\ is_retryable_error(r_result.err)

\* InvokeErr has scheduled a retry
RetryScheduled == rpc = "calling" /\ rpc' = "waiting"

\* C21: when an invocation fails with RateLimit { retry_after: Some(R) }
\* and retries remain, the wait before the next invocation is exactly R
\* seconds and the backoff is left alone; the jittered backoff interval is
\* the wait, and the backoff advances, only when the error carries no
\* retry-after value.
C21_RetryAfterIsTheWait ==
    [][ RetryScheduled =>
          IF r_error'.kind = "RateLimit" /\ r_error'.retry_after.some
          THEN /\ r_delay' = r_error'.retry_after.val * 1000000
               /\ r_interval' = r_interval
          ELSE /\ r_delay' \in {RandomizedInterval(r_interval, r) : r \in JitterDraws}
               /\ r_interval' = RetryIncrementInterval(r_interval) ]_vars

\* a retry waits the 5 s of retry-after although the backoff, advanced by
\* an earlier failure, stands at 200 ms
C21_Witness ==
    /\ rpc = "waiting" /\ retries = 1
    /\ r_error = [kind |-> "RateLimit", retry_after |-> Some(5)]
    /\ r_delay = 5000000
    /\ r_interval = 200000

(***************************************************************************)
(* calculate_backoff: properties                                           *)
(***************************************************************************)
Min(a, b) == IF a <= b THEN a ELSE b
Max(a, b) == IF a >= b THEN a ELSE b
Clamp(x, lo, hi) == Max(lo, Min(x, hi))

\* min(initial_backoff * backoff_multiplier^n, max_backoff)
RECURSIVE Geometric(_, _)
Geometric(config, n) ==
    IF n = 0
    THEN Min(config.initial_backoff, config.max_backoff)
    ELSE Min(Geometric(config, n - 1) * config.backoff_multiplier, config.max_backoff)

\* clamp(initial_backoff * backoff_multiplier^n, initial_backoff, max_backoff)
Nominal(config, n) ==
    Clamp(Geometric(config, n), config.initial_backoff, config.max_backoff)

JitterOf(x) == (RandomizationPct * x) \div 100

\* C22: calculate_backoff(n) returns a delay within +/- 0.5 of
\* clamp(initial_backoff * backoff_multiplier^n, initial_backoff, max_backoff),
\* for every attempt n and every jitter draw
C22_DelayIsJitteredNominal ==
    computed # NoVal =>
        LET c == Nominal(b_config, computed.attempt)
        IN  /\ computed.delay >= c - JitterOf(c)
            /\ computed.delay <= c + JitterOf(c)

\* attempt 8 of the default config: 100 ms * 2^8 is capped at 10 s, and the
\* lowest draw gives 5 s
C22_Witness ==
    /\ b_config = DefaultRetryConfig
    /\ computed # NoVal
    /\ computed.attempt = 8
    /\ computed.draw = 0
    /\ computed.delay = 5000000

\* C23: the delay calculate_backoff(n) returns is never below
\* initial_backoff * backoff_multiplier^n for the early attempts and never
\* above max_backoff for any attempt, whatever jitter is drawn
C23_DelayStaysInRange ==
    computed # NoVal =>
        LET g == Geometric(b_config, computed.attempt)
        IN  /\ g < b_config.max_backoff => computed.delay >= g
            /\ computed.delay <= b_config.max_backoff

(***************************************************************************)
(* Credential: properties                                                  *)
(***************************************************************************)
\* C24: is_expired() on a bearer token is true iff now >= created_at +
\* expires_in, and on an API key it is false at every time
C24_ExpiryIsTheComparison ==
    expiry_seen # NoVal =>
        LET auth == cl.auth.val
        IN  IF auth.kind = "AccessToken"
            THEN expiry_seen.expired <=>
                     (expiry_seen.at >= auth.created_at + auth.expires_in)
            ELSE ~expiry_seen.expired

\* a token created at 1 that lives 2 seconds is asked at the instant 3
C24_Witness ==
    /\ cl.auth = Some(AccessToken("tok", 2, 1))
    /\ expiry_seen = [at |-> 3, expired |-> TRUE]

\* the header and the parameter the credential of the client gives
HeaderOf(client) ==
    IF client.auth.some THEN header_value(client.auth.val) ELSE None
ParamOf(client) ==
    IF client.auth.some THEN Some(query_param(client.auth.val)) ELSE None

HasSent(c) == inflight'[c].attempts = inflight[c].attempts + 1

\* C25: no unary request and no handshake changes the credential of the
\* client, and the credential is attached as it is, expired or not, to every
\* request and every handshake
C25_CredentialIsNeverRefreshed ==
    [][ /\ (inflight' # inflight \/ handshake' # handshake) => cl' = cl
        /\ \A c \in CallIds : HasSent(c) => inflight'[c].header = HeaderOf(cl)
        /\ handshake' # handshake => handshake'.param = ParamOf(cl) ]_vars

\* the token expired at 1 s; a request and a handshake made at 2 s carry it
C25_Witness ==
    /\ cl.auth = Some(AccessToken("tok", 1, 0))
    /\ utc_now = 2
    /\ is_expired(cl.auth.val, utc_now)
    /\ \E c \in CallIds :
          /\ inflight[c].attempts = 1
          /\ inflight[c].header = Some(<<"Authorization", "Bearer tok">>)
    /\ handshake # NoVal
    /\ handshake.param = Some(<<"access_token", "tok">>)
    /\ handshake.result = Ok("socket")

HasMoved(c) == inflight'[c] # inflight[c]

IsFresh(k) ==
    /\ k.attempts = 0
    /\ k.elapsed = 0
    /\ k.current_interval = InitialInterval
    /\ k.delay = 0
    /\ k.last_error = NoVal

\* C26: the retry state belongs to one execute call: a step of a call leaves
\* the state of every other call and the fields of the client as they were,
\* and a call that begins starts from a fresh state whatever the others hold
C26_RetryStateIsPerCall ==
    [][ \A c \in CallIds : HasMoved(c) =>
            /\ \A d \in CallIds \ {c} : ~HasMoved(d)
            /\ cl' = cl
            /\ inflight[c].pc = "idle" => IsFresh(inflight'[c]) ]_vars

\* call 1 waits for its second attempt with a grown interval while call 2,
\* on the same client, has succeeded at its first attempt
C26_Witness ==
    /\ inflight[1].pc = "sleeping"
    /\ inflight[1].attempts = 1
    /\ inflight[1].current_interval = 750000
    /\ inflight[1].last_error = [kind |-> "Other", retryable_status |-> 500]
    /\ inflight[2].pc = "done"
    /\ inflight[2].attempts = 1
    /\ inflight[2].current_interval = InitialInterval
    /\ inflight[2].result.kind = "Ok"

(***************************************************************************)
(* Unary engine: properties                                                *)
(***************************************************************************)
EffMax == EffectiveMaxRetries(opt_max_retries, client_max_retries)

IsOkWith(v, resp) == v.kind = "Ok" /\ v.resp = resp

\* next_backoff returned None at the last failure: max_elapsed_time is spent
ElapsedBoundHit ==
    \/ elapsed > MaxElapsedTime
    \/ drawn.some /\ elapsed + drawn.val > MaxElapsedTime

\* the call is over and execute_request gave up on a retryable failure
GaveUp ==
    /\ upc = "done"
    /\ exec_result.kind = "Err"
    /\ AttemptResult(last_outcome, EffMax).kind = "transient"

\* C1: one call never makes more retries than the effective max_retries
\* (the per-request override, else the client's value): the number of
\* attempts of a call in progress or just returned stays within
\* max_retries + 1, and a retry is scheduled only while the attempts made so
\* far are within max_retries.
C1_RetriesWithinMax ==
    /\ upc # "idle" => attempts <= EffMax + 1
    /\ upc = "sleeping" => attempts <= EffMax

\* C2 as stated: after k consecutive 5xx answers, k <= max_retries, the
\* engine is still trying, so that a 2xx at attempt k+1 is returned: it
\* never ends a call on its j-th consecutive 5xx for j <= max_retries.
C2_Original ==
    (upc = "done" /\ earlier_5xx /\ Is5xx(last_outcome)) => attempts > EffMax

\* C2 amended: after k consecutive 5xx answers, k <= max_retries, the engine
\* ends the call only when the elapsed-time bound of 60 s is hit; otherwise
\* it goes on, and the 2xx met at attempt k+1 is what execute_request
\* returns (and request() returns its decoded payload).
C2_SuccessAfterKFailures ==
    /\ (upc = "done" /\ earlier_5xx /\ Is5xx(last_outcome) /\ attempts <= EffMax)
           => ElapsedBoundHit
    /\ (upc = "done" /\ earlier_5xx /\ last_outcome.kind = "response"
           /\ IsSuccess(last_outcome.status) /\ attempts - 1 <= EffMax)
           => /\ IsOkWith(exec_result, last_outcome)
              /\ last_outcome.decodable => result.kind = "Ok"

\* Scenario A: 500, 500, 200 with max_retries = 3 gives the payload at attempt 3
C2_Witness ==
    /\ upc = "done" /\ EffMax = 3 /\ attempts = 3 /\ earlier_5xx
    /\ last_outcome.kind = "response" /\ last_outcome.status = 200
    /\ result.kind = "Ok"

IsPermanent4xx(o) ==
    o.kind = "response" /\ o.status >= 400 /\ o.status < 500
        /\ o.status # TooManyRequests

\* C3: an attempt answered with a 4xx other than 429 is the last attempt of
\* its call: no retry and no sleep follow it, and the caller gets Error::Api
\* carrying that status; answered so at once, the call made one attempt.
C3_ClientErrorIsPermanent ==
    IsPermanent4xx(last_outcome) =>
        /\ upc \in {"done", "idle"}
        /\ delay = 0
        /\ IsOkWith(exec_result, last_outcome)
        /\ result = [kind |-> "Err",
                      err |-> [kind |-> "Api", status |-> last_outcome.status]]

\* Scenario B: a 400 at the first attempt
C3_Witness ==
    /\ upc = "done" /\ attempts = 1 /\ EffMax > 0
    /\ IsPermanent4xx(last_outcome) /\ last_outcome.status = 400
    /\ result.kind = "Err" /\ result.err.kind = "Api"

\* C4: the retry that follows a 429 carrying retry-after = R waits exactly
\* R seconds, in place of the computed backoff delay.
C4_RetryAfterIsTheDelay ==
    (upc = "sleeping" /\ last_outcome.kind = "response"
        /\ last_outcome.status = TooManyRequests /\ last_outcome.retry_after.some)
      => delay = last_outcome.retry_after.val * 1000000

\* the error names the failure of the last attempt itself
IsConcreteFor(err, o) ==
    IF o.kind = "send_error"
    THEN err.kind = "Http" /\ err.cause = o.cause
    ELSE IF o.status = TooManyRequests
         THEN err.kind = "RateLimit" /\ err.retry_after = o.retry_after
         ELSE err.kind = "Api" /\ err.status = o.status

\* C5: when the engine gives up on a retryable failure, the error returned
\* is the concrete failure of the last attempt (the server-reported status
\* error or the transport error) and carries the attempt count.
C5_GiveUpReturnsLastConcreteError ==
    GaveUp =>
        /\ IsConcreteFor(exec_result.err, last_outcome)
        /\ "attempts" \in DOMAIN exec_result.err
        /\ exec_result.err.attempts = attempts

IsTimeout(o) == o.kind = "send_error" /\ o.cause = "timeout"

\* C16: an attempt that times out is retried while the retry bounds allow:
\* with retries left and the elapsed-time bound not hit, the call goes on
\* (it sleeps, then sends again) instead of returning to the caller.
C16_TimeoutIsRetried ==
    (upc = "done" /\ IsTimeout(last_outcome)) =>
        (attempts > EffMax \/ ElapsedBoundHit)

IsUndecodable2xx(o) ==
    o.kind = "response" /\ IsSuccess(o.status) /\ ~o.decodable

\* C18: an attempt answered 2xx with a body that does not decode is the
\* last attempt of its call: no retry and no sleep follow it and the caller
\* gets the decode error; answered so at once, the call made one attempt.
C18_DecodeFailureIsNotRetried ==
    IsUndecodable2xx(last_outcome) =>
        /\ upc \in {"done", "idle"}
        /\ delay = 0
        /\ IsOkWith(exec_result, last_outcome)
        /\ result = [kind |-> "Err", err |-> [kind |-> "Http", cause |-> "decode"]]

\* a 200 with an undecodable body at the first attempt, retries allowed
C18_Witness ==
    /\ upc = "done" /\ attempts = 1 /\ EffMax = 3
    /\ IsUndecodable2xx(last_outcome)
    /\ result.kind = "Err" /\ result.err.cause = "decode"

Is429(o) == o.kind = "response" /\ o.status = TooManyRequests

\* C19: a call that ends in failure on a 429 answer returns
\* Error::RateLimit carrying the retry-after value of that answer (None
\* when it has none), whatever max_retries is.
C19_RateLimitIsReturned ==
    (upc = "done" /\ Is429(last_outcome)) =>
        result = [kind |-> "Err",
                  err |-> [kind |-> "RateLimit",
                           retry_after |-> last_outcome.retry_after]]

(***************************************************************************)
(* Termination of the unary engine: properties                             *)
(***************************************************************************)
\* C27: against a server that fails transiently forever, with an effective
\* max_retries > 0, every call of execute_request returns; it returns an
\* error, and only once the 60 s of max_elapsed_time are spent
C27_CallTerminates ==
    /\ (upc = "sending") ~> (upc = "done")
    /\ [](upc = "done" => exec_result.kind = "Err" /\ ElapsedBoundHit)

\* the call gave up after 11 attempts that slept the shortest draw
C27_Witness ==
    /\ upc = "done"
    /\ exec_result.kind = "Err"
    /\ attempts = 11
    /\ elapsed > 40000000
    /\ ElapsedBoundHit

(***************************************************************************)
(* request_bytes and request_stream: properties                            *)
(***************************************************************************)
\* the return of request_bytes or request_stream on a response of
\* execute_request
RawOnResponse == raw_result # NoVal /\ raw_result.exec.kind = "Ok"

\* C28 as stated: whatever the status of the response execute_request
\* yields, request_bytes and request_stream return Ok(body)
C28_Original ==
    RawOnResponse => raw_result.value.kind = "Ok"

\* C28: request_bytes and request_stream never look at the status of the
\* response execute_request yields: a non-2xx answer is Ok(body), never
\* Error::Api or Error::RateLimit, whereas request() makes an error of it;
\* the one error they add is the failed read of the body in request_bytes,
\* for a 2xx answer as for any other; request_stream hands the stream over
\* unread; an error of execute_request is passed on
C28_RawBodyWhateverTheStatus ==
    raw_result # NoVal =>
        IF raw_result.exec.kind = "Ok"
        THEN /\ raw_result.value =
                    IF raw_result.entry = "request_bytes" /\ ~raw_result.readable
                    THEN BodyReadError
                    ELSE [kind |-> "Ok",
                          body |-> BodyOf(raw_result.entry, raw_result.exec.resp,
                                          raw_result.readable)]
             /\ raw_result.value.kind = "Err" =>
                    raw_result.value.err.kind \notin {"Api", "RateLimit"}
             /\ ~IsSuccess(raw_result.exec.resp.status) =>
                    RequestResult(raw_result.exec).kind = "Err"
        ELSE raw_result.value = raw_result.exec

\* a 400 answer: Ok(body) from request_bytes, Error::Api from request()
C28_Witness ==
    /\ raw_result # NoVal
    /\ raw_result.entry = "request_bytes"
    /\ raw_result.exec.kind = "Ok"
    /\ raw_result.exec.resp.status = 400
    /\ raw_result.readable
    /\ raw_result.value.kind = "Ok"
    /\ RequestResult(raw_result.exec) = [kind |-> "Err", err |-> [kind |-> "Api", status |-> 400]]

(***************************************************************************)
(* Frames that are neither text nor close: properties                      *)
(***************************************************************************)
\* the receives that read a frame off the connection
FrameReads == {i \in 1..Len(consumed) : consumed[i].src = "frame"}

\* C29: receive() returns Ok(Some(Unknown)) for every inbound frame that is
\* neither a text frame nor a close frame (binary, ping, pong) and skips
\* none: every frame taken off the connection is answered by one return of
\* receive(), which is None for the close frame only
C29_OtherFramesAreUnknown ==
    /\ Len(returned) = Len(consumed)
    /\ Cardinality(FrameReads) + Len(inbound) = emitted
    /\ \A i \in FrameReads :
          CanRead(consumed[i].st) =>
              /\ consumed[i].frame.kind \in OtherKinds => returned[i] = Ok(Some(Unknown))
              /\ consumed[i].frame.kind # "Close" => returned[i] # Ok(None)

\* a ping, a pong and the close frame: two Unknown, then None
C29_Witness ==
    /\ Len(returned) = 3
    /\ consumed[1].src = "frame" /\ consumed[1].frame.kind = "Ping"
    /\ consumed[2].src = "frame" /\ consumed[2].frame.kind = "Pong"
    /\ consumed[3].src = "frame" /\ consumed[3].frame.kind = "Close"
    /\ returned = <<Ok(Some(Unknown)), Ok(Some(Unknown)), Ok(None)>>

(***************************************************************************)
(* wait_for_job_completion: properties                                     *)
(***************************************************************************)
FoundTerminal == w_job.kind = "Ok" /\ IsTerminalState(w_job.val.state)
FoundPending == w_job.kind = "Ok" /\ ~IsTerminalState(w_job.val.state)
TimeoutError == Err([kind |-> "Timeout"])

\* the wait has polled at least once, and Ok(job) is the terminal job of the
\* last poll
ReturnsTheTerminalJob ==
    /\ w_polls >= 1
    /\ w_result.kind = "Ok" => FoundTerminal /\ w_result = w_job

\* the wait sleeps on after a poll that found the job pending, unless
\* max_wait is spent
SleepsWhilePending ==
    w_pc = "sleeping" =>
        /\ FoundPending
        /\ w_max_wait.some => w_elapsed <= w_max_wait.val

\* C30: the wait returns Ok(job) only for a Completed or Failed job, sleeps
\* poll_interval after every poll that found the job pending, and returns
\* Error::Timeout only when max_wait is given and the elapsed time exceeds
\* it right after a poll that found a non-terminal state; with max_wait =
\* None it returns only on a terminal state or a failed poll.
C30_Original ==
    /\ w_pc = "done" =>
          /\ ReturnsTheTerminalJob
          /\ w_result = TimeoutError =>
                FoundPending /\ w_max_wait.some /\ w_elapsed > w_max_wait.val
          /\ ~w_max_wait.some =>
                FoundTerminal \/ (w_job.kind = "Err" /\ w_result = w_job)
    /\ SleepsWhilePending

====
